---- MODULE Spec2Model ----
(***************************************************************************)
(* A model of parkingcam.py: the acquisition loop, the interval scheduler, *)
(* the background detection task (frame cache, temporal smoothing, history *)
(* append, published detection slot) and the region-of-interest resolver.  *)
(*                                                                         *)
(* Time is counted in seconds: cv_interval (1.0 s by default) is 1.        *)
(* Pixels are abstracted to a content id; detector results to the list of  *)
(* class ids of the returned boxes.                                        *)
(***************************************************************************)
EXTENDS Integers, Sequences, FiniteSets, TLC

VARIABLES
    now,                          \* time.time(), in seconds
    source_kind,                  \* "rtsp" | "file" | "none" (use_local_file / rtsp_url)
    cap,                          \* None, or the open capture (identified by its frame width)
    detection_config,             \* history_size, car_present_threshold and
                                  \* car_absent_threshold as lines 1054-1056 read them
    url_option,                   \* the url option of the RTSP section
    rtsp_url,                     \* the URL handed to connect_to_rtsp_stream
    roi,                          \* use_full_frame, roi_x..roi_h, roi_point_x, roi_point_y,
                                  \* roi_quadrant
    temporal_smoothing_cycles,    \* DETECTION/temporal_smoothing_cycles
    main_pc,                      \* position of the main thread: "top" | "sched" | "render" |
                                  \* "done", the steps of the source supervisor, and
                                  \* "capture" ... of the save-frame mode
    frame,                        \* frame read by this iteration (NoFrame: frame is None);
                                  \* its pixels are drawn when the thread's copy is made
    ret,                          \* ret of the last cap.read()
    last_cv_time,
    cv_processing,
    car_history,
    latest_detections,
    latest_detection_frame_size,
    last_frame_hash,
    last_frame_detection_result,
    last_car_detection_time,
    tasks,                        \* the background threads started by the main loop
    detection_region,             \* region last cut out by process_cv_detection
    display_region,               \* region last cut out by prepare_display_image
    display_image,                \* size of the image last rendered and the boxes drawn on it
    prev_cycle,                   \* the detection cycle that completed last
    last_dispatch_time,           \* time of the last thread start
    last_raw_positive_time,       \* time the last cycle that was raw positive (or served a
                                  \* positive from the cache) passed lines 1362-1378
    history_appends,              \* number of car_history.append calls so far
    retry_count,                  \* retry_count of the read-retry loop (line 1586)
    reads_failed,                 \* reads that failed in this iteration of the main loop
    handle,                       \* the cv2.VideoCapture made by the last connect call:
                                  \* "none" | "open" | "released" | "dropped" (unreferenced)
    open_outcome,                 \* what the source did on the last connect call
    since_release,                \* tenths of a second slept since a dead connection was
                                  \* released (None: no release since the last connection)
    since_open,                   \* tenths of a second slept since the last failed reconnect
    faults_left,                  \* failures the source may still produce
    failed_opens,                 \* failed connect calls of the current outage
    position,                     \* CAP_PROP_POS_FRAMES of a local file: index of the frame
                                  \* the next read returns
    shutdown_flag                 \* set by signal_handler

vars == << now, source_kind, cap, detection_config, url_option, rtsp_url, roi,
           temporal_smoothing_cycles, main_pc, frame, ret,
           last_cv_time, cv_processing, car_history, latest_detections,
           latest_detection_frame_size, last_frame_hash, last_frame_detection_result,
           last_car_detection_time, tasks, detection_region, display_region,
           display_image,
           prev_cycle, last_dispatch_time, last_raw_positive_time, history_appends,
           retry_count, reads_failed, handle, open_outcome, since_release, since_open,
           faults_left, failed_opens, position, shutdown_flag >>

-----------------------------------------------------------------------------
(* Bounds of the model *)

MaxTime == 3          \* the clock stops advancing here
MaxTasks == 2         \* thread objects the model can hold at once
MaxContent == 3       \* region contents 1..MaxContent
MaxFrameDim == 3      \* frames of the pipeline are MaxFrameDim or MaxFrameDim-1 wide
MaxSmoothingCycles == 2
MaxRoiCoord == 4      \* configured ROI numbers range over -1..MaxRoiCoord (region specification)
MaxRoiFrame == 3      \* frame sides range over 1..MaxRoiFrame (region specification)
MaxFaults == 5        \* failures (reads, connects) the source produces (supervisor specification)
FileFrames == 2       \* frames in the local video file
MaxConfigValue == 4   \* options of the configuration file range over -1..MaxConfigValue
MaxUrlParams == 2     \* query parameters of a configured stream address
MaxElapsed == 60      \* slept time is counted up to here, in tenths of a second

-----------------------------------------------------------------------------
(* Configuration and Python values *)

None == -999                       \* Python None in an integer-valued place
NoneSize == << >>                  \* None in place of a (w, h) tuple
NoneResult == << >>                \* None in place of the cached result tuple
NoneDetections == << None >>       \* None in place of a YOLO result list

cv_interval == 1                   \* DETECTION/cv_interval, seconds
history_size == 2
car_present_threshold == 2
car_absent_threshold == 0
CAR_STATUS_TRIGGER_CLASSES == {2, 8, 28}

\* The thresholds the pipeline of the model runs with.
RunningThresholds ==
    [history_size |-> history_size, car_present_threshold |-> car_present_threshold,
     car_absent_threshold |-> car_absent_threshold]

\* The present/absent state.  The thresholds are read from the configuration and
\* handed to cv_processing_thread, whose docstring says they "are applied later when
\* evaluating the car_history buffer"; no statement of the program evaluates the
\* buffer against them or assigns a presence state, and the renderer is given the
\* history itself.  The state therefore keeps its startup value, absent.
present == FALSE

temporal_smoothing_window == cv_interval * temporal_smoothing_cycles

Max(a, b) == IF a >= b THEN a ELSE b
Min(a, b) == IF a <= b THEN a ELSE b

NoFrame == [w |-> 0, h |-> 0, c |-> None]
\* A capture delivers frames of one resolution; the content varies from frame to frame.
StreamWidths == {MaxFrameDim - 1, MaxFrameDim}
Contents == 1..MaxContent
FrameOf(width) == [w |-> width, h |-> MaxFrameDim - 1, c |-> None]

\* What the detector does on one call: it raises, or returns boxes with these class ids
\* (0 = person, 2 = car).
DetectorOutcomes ==
    {[err |-> TRUE, cls |-> << >>]} \cup {[err |-> FALSE, cls |-> c] : c \in {<<0>>, <<2>>}}

-----------------------------------------------------------------------------
(* The stream address (lines 128-160).  A text is a sequence of pieces; a piece is  *)
(* the prefix, a host, a separator, a parameter name ending in "=", a value or a    *)
(* blank.                                                                           *)

\* The pieces whose text contains "transport=".
HasTransportText(piece) == piece \in {"transport=", "x_transport="}

\* sub in text, for the texts "transport=" and "?".
Contains(text, sub) ==
    \E i \in 1..Len(text) :
        IF sub = "transport=" THEN HasTransportText(text[i]) ELSE text[i] = sub

\* str.strip(): the blanks at both ends are removed.
strip(text) ==
    LET RECURSIVE lstrip(_)
        lstrip(t) == IF t # << >> /\ Head(t) = " " THEN lstrip(Tail(t)) ELSE t
        RECURSIVE rstrip(_)
        rstrip(t) ==
            IF t # << >> /\ t[Len(t)] = " " THEN rstrip(SubSeq(t, 1, Len(t) - 1)) ELSE t
    IN  rstrip(lstrip(text))

\* str.startswith('rtsp://')
startswith_rtsp(text) == text # << >> /\ Head(text) = "rtsp://"

\* Lines 140-160; None when the address is not configured.
get_rtsp_url(url_text) ==
    LET stripped == strip(url_text)
        prefixed == IF startswith_rtsp(stripped) THEN stripped ELSE << "rtsp://" >> \o stripped
    IN  IF stripped = << >> THEN << None >>
        ELSE IF Contains(prefixed, "transport=") THEN prefixed
        ELSE IF Contains(prefixed, "?") THEN prefixed \o << "&", "transport=", "tcp" >>
        ELSE prefixed \o << "?", "transport=", "tcp" >>

NoUrl == << None >>

\* The address of the specifications that do not load the configuration.
StreamUrlOption == << "rtsp://", "cam" >>

-----------------------------------------------------------------------------
(* Region of interest *)

\* Lines 1013-1038, mutated: quadrant 1 is resolved as the top-left rectangle and
\* quadrant 2 as the top-right one.
calculate_roi_from_point_quadrantMirrored(point_x, point_y, quadrant, frame_width, frame_height) ==
    LET x0 == IF quadrant = 1 THEN 0
              ELSE IF quadrant = 2 THEN point_x
              ELSE IF quadrant = 3 THEN 0
              ELSE point_x
        y0 == IF quadrant = 1 THEN 0
              ELSE IF quadrant = 2 THEN 0
              ELSE IF quadrant = 3 THEN point_y
              ELSE point_y
        w0 == IF quadrant = 1 THEN point_x
              ELSE IF quadrant = 2 THEN frame_width - point_x
              ELSE IF quadrant = 3 THEN point_x
              ELSE frame_width - point_x
        h0 == IF quadrant = 1 THEN point_y
              ELSE IF quadrant = 2 THEN point_y
              ELSE IF quadrant = 3 THEN frame_height - point_y
              ELSE frame_height - point_y
        x == Max(0, Min(x0, frame_width - 1))
        y == Max(0, Min(y0, frame_height - 1))
        width == Max(1, Min(w0, frame_width - x))
        height == Max(1, Min(h0, frame_height - y))
    IN  << x, y, width, height >>

\* Lines 1013-1038, mutated: an unknown quadrant code is resolved as quadrant 1.
calculate_roi_from_point_quadrantToOne(point_x, point_y, quadrant, frame_width, frame_height) ==
    LET q == IF quadrant \in 1..4 THEN quadrant ELSE 1
        x0 == IF q = 1 THEN point_x ELSE IF q = 2 THEN 0 ELSE IF q = 3 THEN 0 ELSE point_x
        y0 == IF q = 1 THEN 0 ELSE IF q = 2 THEN 0 ELSE IF q = 3 THEN point_y ELSE point_y
        w0 == IF q = 1 THEN frame_width - point_x
              ELSE IF q = 2 THEN point_x
              ELSE IF q = 3 THEN point_x
              ELSE frame_width - point_x
        h0 == IF q = 1 THEN point_y
              ELSE IF q = 2 THEN point_y
              ELSE IF q = 3 THEN frame_height - point_y
              ELSE frame_height - point_y
        x == Max(0, Min(x0, frame_width - 1))
        y == Max(0, Min(y0, frame_height - 1))
        width == Max(1, Min(w0, frame_width - x))
        height == Max(1, Min(h0, frame_height - y))
    IN  << x, y, width, height >>

\* Lines 1013-1035: the branch that logs "Invalid quadrant ..., defaulting to quadrant 4"
\* is taken.
invalid_quadrant_warning(quadrant) ==
    ~(quadrant = 1) /\ ~(quadrant = 2) /\ ~(quadrant = 3) /\ ~(quadrant = 4)

\* Lines 996-1046, mutated: the rectangle is returned without the clamp of lines 1040-1044.
calculate_roi_from_point_quadrantRaw(point_x, point_y, quadrant, frame_width, frame_height) ==
    IF quadrant = 1 THEN << point_x, 0, frame_width - point_x, point_y >>
    ELSE IF quadrant = 2 THEN << 0, 0, point_x, point_y >>
    ELSE IF quadrant = 3 THEN << 0, point_y, point_x, frame_height - point_y >>
    ELSE << point_x, point_y, frame_width - point_x, frame_height - point_y >>

\* Lines 996-1046.
calculate_roi_from_point_quadrant(point_x, point_y, quadrant, frame_width, frame_height) ==
    LET x0 == IF quadrant = 1 THEN point_x
              ELSE IF quadrant = 2 THEN 0
              ELSE IF quadrant = 3 THEN 0
              ELSE point_x
        y0 == IF quadrant = 1 THEN 0
              ELSE IF quadrant = 2 THEN 0
              ELSE IF quadrant = 3 THEN point_y
              ELSE point_y
        w0 == IF quadrant = 1 THEN frame_width - point_x
              ELSE IF quadrant = 2 THEN point_x
              ELSE IF quadrant = 3 THEN point_x
              ELSE frame_width - point_x
        h0 == IF quadrant = 1 THEN point_y
              ELSE IF quadrant = 2 THEN point_y
              ELSE IF quadrant = 3 THEN frame_height - point_y
              ELSE frame_height - point_y
        x == Max(0, Min(x0, frame_width - 1))
        y == Max(0, Min(y0, frame_height - 1))
        width == Max(1, Min(w0, frame_width - x))
        height == Max(1, Min(h0, frame_height - y))
    IN  << x, y, width, height >>

\* Lines 1183-1187, mutated: the position is clamped to the frame first and the size
\* is cut to what is left of the frame.
ClampRoiPositionFirst(r, frame_w, frame_h) ==
    LET roi_x == Max(0, Min(r[1], frame_w - 1))
        roi_y == Max(0, Min(r[2], frame_h - 1))
        roi_w == Max(1, Min(r[3], frame_w - roi_x))
        roi_h == Max(1, Min(r[4], frame_h - roi_y))
    IN  << roi_x, roi_y, roi_w, roi_h >>

\* Lines 1183-1187, mutated: the size is not raised to 1.
ClampRoiNoSizeFloor(r, frame_w, frame_h) ==
    LET roi_w == Min(r[3], frame_w)
        roi_h == Min(r[4], frame_h)
        roi_x == Max(0, Min(r[1], frame_w - roi_w))
        roi_y == Max(0, Min(r[2], frame_h - roi_h))
    IN  << roi_x, roi_y, roi_w, roi_h >>

\* Lines 1183-1187: "Clamp ROI width/height first to frame dimensions, then clamp position"
ClampRoi(r, frame_w, frame_h) ==
    LET roi_w == Max(1, Min(r[3], frame_w))
        roi_h == Max(1, Min(r[4], frame_h))
        roi_x == Max(0, Min(r[1], frame_w - roi_w))
        roi_y == Max(0, Min(r[2], frame_h - roi_h))
    IN  << roi_x, roi_y, roi_w, roi_h >>

\* Lines 1189-1190 and 1306-1307: the "ROI bounds adjusted" warning is logged.
bounds_adjusted(original, clamped) ==
    \/ clamped[1] # original[1]
    \/ clamped[2] # original[2]
    \/ clamped[3] # original[3]
    \/ clamped[4] # original[4]

\* The (x, y, w, h) process_cv_detection cuts out of a frame (lines 1163-1194).
DetectionRegion(cfg, frame_w, frame_h) ==
    IF cfg.use_full_frame
    THEN << 0, 0, frame_w, frame_h >>
    ELSE LET r == IF cfg.roi_x = None /\ cfg.roi_point_x # None /\ cfg.roi_point_y # None
                     /\ cfg.roi_quadrant # None
                  THEN calculate_roi_from_point_quadrant(cfg.roi_point_x, cfg.roi_point_y,
                                                         cfg.roi_quadrant, frame_w, frame_h)
                  ELSE << cfg.roi_x, cfg.roi_y, cfg.roi_w, cfg.roi_h >>
         IN  ClampRoi(r, frame_w, frame_h)

\* The (x, y, w, h) prepare_display_image cuts out of a frame (lines 1283-1311).
DisplayRegion(cfg, frame_w, frame_h) ==
    IF cfg.use_full_frame
    THEN << 0, 0, frame_w, frame_h >>
    ELSE LET r == IF cfg.roi_x = None /\ cfg.roi_point_x # None /\ cfg.roi_point_y # None
                     /\ cfg.roi_quadrant # None
                  THEN calculate_roi_from_point_quadrant(cfg.roi_point_x, cfg.roi_point_y,
                                                         cfg.roi_quadrant, frame_w, frame_h)
                  ELSE << cfg.roi_x, cfg.roi_y, cfg.roi_w, cfg.roi_h >>
             roi_w == Max(1, Min(r[3], frame_w))
             roi_h == Max(1, Min(r[4], frame_h))
             roi_x == Max(0, Min(r[1], frame_w - roi_w))
             roi_y == Max(0, Min(r[2], frame_h - roi_h))
         IN  << roi_x, roi_y, roi_w, roi_h >>

RegionSize(r) == << r[3], r[4] >>

FullFrameConfig ==
    [use_full_frame |-> TRUE, roi_x |-> None, roi_y |-> None, roi_w |-> None, roi_h |-> None,
     roi_point_x |-> 1, roi_point_y |-> 1, roi_quadrant |-> 4]

CoordinatesConfig(x, y, w, h) ==
    [use_full_frame |-> FALSE, roi_x |-> x, roi_y |-> y, roi_w |-> w, roi_h |-> h,
     roi_point_x |-> None, roi_point_y |-> None, roi_quadrant |-> None]

PointQuadrantConfig(px, py, q) ==
    [use_full_frame |-> FALSE, roi_x |-> None, roi_y |-> None, roi_w |-> None, roi_h |-> None,
     roi_point_x |-> px, roi_point_y |-> py, roi_quadrant |-> q]

NoRegion == [x |-> None, y |-> None, w |-> None, h |-> None, fw |-> None, fh |-> None]
RegionOf(r, fw, fh) == [x |-> r[1], y |-> r[2], w |-> r[3], h |-> r[4], fw |-> fw, fh |-> fh]

-----------------------------------------------------------------------------
(* Frame cache, detector call and temporal smoothing: process_cv_detection *)

\* md5 of the 32x32 grayscale downsample: contents that differ only below the
\* downsampling resolution (2k-1 and 2k) share a digest.  Frames come from cap.read()
\* and regions are at least 1x1, so the conversion does not raise.
compute_frame_hash(c) == IF c = None THEN None ELSE (c + 1) \div 2

\* The detector's verdict on its own output (lines 1222-1234).
RawTriggered(cls) == \E i \in 1..Len(cls) : cls[i] \in CAR_STATUS_TRIGGER_CLASSES

\* Lines 1237-1242, mutated: the comparison with the window is not strict.
SmoothNonStrict(car_detected, last_time, current_time, window) ==
    IF ~car_detected /\ last_time # None
    THEN IF current_time - last_time <= window THEN TRUE ELSE car_detected
    ELSE car_detected

\* Lines 1237-1242.
Smooth(car_detected, last_time, current_time, window) ==
    IF ~car_detected /\ last_time # None
    THEN IF current_time - last_time < window THEN TRUE ELSE car_detected
    ELSE car_detected

\* Lines 1200-1208, mutated: the fingerprints are compared for inequality.
CacheHitOnDifferentHash(current_hash, frame_size, last_hash, last_result) ==
    /\ current_hash # None
    /\ last_hash # None
    /\ current_hash # last_hash
    /\ last_result # NoneResult
    /\ last_result[3] = frame_size

\* Lines 1200-1208, mutated: the cached region size is not compared.
CacheHitIgnoringSize(current_hash, frame_size, last_hash, last_result) ==
    /\ current_hash # None
    /\ last_hash # None
    /\ current_hash = last_hash
    /\ last_result # NoneResult

\* Lines 1200-1208: the cached tuple is returned instead of running the detector.
CacheHit(current_hash, frame_size, last_hash, last_result) ==
    /\ current_hash # None
    /\ last_hash # None
    /\ current_hash = last_hash
    /\ last_result # NoneResult
    /\ last_result[3] = frame_size

\* Lines 1247-1253, mutated: the failed cycle reports a car.
DetectorFailedReportsCar(frame_size, region) ==
    [car_detected |-> TRUE, detections |-> NoneDetections,
     frame_size |-> frame_size, frame_hash |-> None,
     raw |-> FALSE, ran_detector |-> TRUE, cache_hit |-> FALSE, failed |-> TRUE,
     region |-> region]

\* Lines 1247-1253: the detector call raised; "return False, None, (frame_w, frame_h), None".
DetectorFailed(frame_size, region) ==
    [car_detected |-> FALSE, detections |-> NoneDetections,
     frame_size |-> frame_size, frame_hash |-> None,
     raw |-> FALSE, ran_detector |-> TRUE, cache_hit |-> FALSE, failed |-> TRUE,
     region |-> region]

\* The tuple process_cv_detection returns, with what it did on the way:
\* raw (car_detected before smoothing), ran_detector, cache_hit.
process_cv_detection(f, cfg, last_hash, last_result, last_time, window, outcome, current_time) ==
    LET region == DetectionRegion(cfg, f.w, f.h)
        frame_size == RegionSize(region)
        current_frame_hash == compute_frame_hash(f.c)
    IN  IF CacheHit(current_frame_hash, frame_size, last_hash, last_result)
        THEN [car_detected |-> last_result[1], detections |-> last_result[2],
              frame_size |-> frame_size, frame_hash |-> current_frame_hash,
              raw |-> FALSE, ran_detector |-> FALSE, cache_hit |-> TRUE, failed |-> FALSE,
              region |-> region]
        ELSE IF outcome.err
        THEN DetectorFailed(frame_size, region)
        ELSE [car_detected |-> Smooth(RawTriggered(outcome.cls), last_time, current_time, window),
              detections |-> outcome.cls,
              frame_size |-> frame_size, frame_hash |-> current_frame_hash,
              raw |-> RawTriggered(outcome.cls), ran_detector |-> TRUE, cache_hit |-> FALSE,
              failed |-> FALSE, region |-> region]

\* Mutated: the oldest entry is not removed.
AppendHistoryNoEvict(h, v) == Append(h, v)

\* car_history.append(v); if len(car_history) > history_size: car_history.pop(0)
AppendHistory(h, v) ==
    LET a == Append(h, v)
    IN  IF Len(a) > history_size THEN Tail(a) ELSE a

-----------------------------------------------------------------------------
(* The rendered image (lines 1701-1734) *)

\* Nothing has been rendered yet.
NoImage == [size |-> NoneSize, boxes |-> NoneDetections]

\* Lines 843-859: an image of the given size, without boxes.
create_placeholder_image(width, height) == [size |-> << width, height >>, boxes |-> NoneDetections]

\* Lines 1282-1313 for a frame that is not None: the image is the region cut out of the frame.
prepare_display_image(f, cfg) ==
    [size |-> RegionSize(DisplayRegion(cfg, f.w, f.h)), boxes |-> NoneDetections]

\* The image with the boxes of the detection list drawn on it.
overlay_bounding_boxes(image, detections) == [image EXCEPT !.boxes = detections]

\* Lines 1722-1733, mutated: the sizes are not compared.
OverlayIgnoringSize(image, current_detections, current_detection_frame_size) ==
    IF current_detections # NoneDetections /\ current_detection_frame_size # NoneSize
    THEN overlay_bounding_boxes(image, current_detections)
    ELSE image

\* Lines 1722-1733: the boxes are drawn when the slot holds a list and a size and the
\* size is that of the image.
Overlay(image, current_detections, current_detection_frame_size) ==
    IF current_detections # NoneDetections /\ current_detection_frame_size # NoneSize
    THEN IF /\ image.size[1] = current_detection_frame_size[1]
            /\ image.size[2] = current_detection_frame_size[2]
         THEN overlay_bounding_boxes(image, current_detections)
         ELSE image
    ELSE image

-----------------------------------------------------------------------------
(* State *)

TaskIds == 1..MaxTasks

\* The acquisition bookkeeping of the specifications that take an iteration of the
\* acquisition part as one step.
SourceIdle ==
    /\ retry_count = 0
    /\ reads_failed = 0
    /\ handle = "none"
    /\ open_outcome = "none"
    /\ since_release = None
    /\ since_open = None
    /\ faults_left = 0
    /\ failed_opens = 0
    /\ position = 0
    /\ shutdown_flag = FALSE

IdleTask ==
    [pc |-> "idle", frame |-> NoFrame, car_detected |-> FALSE, detections |-> NoneDetections,
     frame_size |-> NoneSize, frame_hash |-> None, raw |-> FALSE, ran_detector |-> FALSE,
     cache_hit |-> FALSE, failed |-> FALSE,
     published |-> FALSE, appended |-> FALSE, raised_at |-> "no"]

NoCycle ==
    [valid |-> FALSE, content |-> None, car_detected |-> FALSE,
     detections |-> NoneDetections, frame_size |-> NoneSize, frame_hash |-> None,
     ran_detector |-> FALSE, failed |-> FALSE, raised_at |-> "no"]

InFlight == {i \in TaskIds : tasks[i].pc # "idle"}

\* The configurations the pipeline specification starts from: a network stream with
\* an explicit region larger than the smaller frame, and no source at all with each
\* kind of region configuration.
PipelineConfigs ==
    { << "rtsp", CoordinatesConfig(1, 0, MaxFrameDim, MaxFrameDim) >>,
      << "none", FullFrameConfig >>,
      << "none", CoordinatesConfig(1, 0, MaxFrameDim, MaxFrameDim) >>,
      << "none", PointQuadrantConfig(1, 1, 4) >> }

Init ==
    /\ now = 0
    /\ \E c \in PipelineConfigs : source_kind = c[1] /\ roi = c[2]
    /\ cap \in (IF source_kind = "none" THEN {None} ELSE {None} \cup StreamWidths)
    /\ temporal_smoothing_cycles = MaxSmoothingCycles
    /\ main_pc = "top"
    /\ frame = NoFrame
    /\ ret = FALSE
    /\ last_cv_time = 0
    /\ cv_processing = FALSE
    /\ detection_config = RunningThresholds
    /\ url_option = StreamUrlOption
    /\ rtsp_url = (IF source_kind = "rtsp" THEN get_rtsp_url(url_option) ELSE NoUrl)
    /\ car_history = << >>
    /\ latest_detections = NoneDetections
    /\ latest_detection_frame_size = NoneSize
    /\ last_frame_hash = None
    /\ last_frame_detection_result = NoneResult
    /\ last_car_detection_time = None
    /\ tasks = [i \in TaskIds |-> IdleTask]
    /\ detection_region = NoRegion
    /\ display_region = NoRegion
    /\ display_image = NoImage
    /\ prev_cycle = NoCycle
    /\ last_dispatch_time = None
    /\ last_raw_positive_time = None
    /\ history_appends = 0
    /\ SourceIdle

config_vars == << source_kind, roi, temporal_smoothing_cycles, detection_config, url_option,
                 rtsp_url >>
sched_vars == << last_cv_time, cv_processing >>
cache_vars == << last_frame_hash, last_frame_detection_result, last_car_detection_time >>
slot_vars == << latest_detections, latest_detection_frame_size >>
history_vars == << car_history, history_appends >>
roi_out_vars == << detection_region, display_region, display_image >>
source_vars == << retry_count, reads_failed, handle, open_outcome, since_release, since_open,
                 faults_left, failed_opens, position >>

-----------------------------------------------------------------------------
(* The clock *)

Tick ==
    /\ now < MaxTime
    /\ now' = now + 1
    /\ UNCHANGED << config_vars, source_vars, shutdown_flag, cap, main_pc, frame, ret,
                    sched_vars, history_vars, slot_vars,
                    cache_vars, tasks, roi_out_vars, prev_cycle,
                    last_dispatch_time, last_raw_positive_time >>

-----------------------------------------------------------------------------
(* The main loop: frame acquisition (lines 1539-1613).  An iteration starts *)
(* only while shutdown_flag is false (line 1539).                           *)

main_rest == << now, config_vars, source_vars, shutdown_flag, sched_vars, history_vars,
                slot_vars, cache_vars, tasks,
                roi_out_vars, prev_cycle, last_dispatch_time,
                last_raw_positive_time >>

\* Lines 1610-1613: no video source is configured.
NoSourceTop ==
    /\ main_pc = "top"
    /\ ~shutdown_flag
    /\ source_kind = "none"
    /\ frame' = NoFrame
    /\ ret' = FALSE
    /\ main_pc' = "sched"
    /\ UNCHANGED << cap, main_rest >>

\* Lines 1572-1576: cap is None, one connection attempt, then continue.
Reopen ==
    /\ main_pc = "top"
    /\ ~shutdown_flag
    /\ source_kind = "rtsp"
    /\ cap = None
    /\ cap' \in {None} \cup StreamWidths
    /\ UNCHANGED << main_pc, frame, ret, main_rest >>

\* Lines 1578-1609: read, up to 3 retries; when all fail, release, reconnect and continue.
RtspRead ==
    /\ main_pc = "top"
    /\ ~shutdown_flag
    /\ source_kind = "rtsp"
    /\ cap # None
    /\ \E failed_reads \in 0..4, reconnected \in {None} \cup StreamWidths :
          IF failed_reads <= 3
          THEN /\ frame' = FrameOf(cap)
               /\ ret' = TRUE
               /\ main_pc' = "sched"
               /\ UNCHANGED cap
          ELSE /\ cap' = reconnected
               /\ frame' = NoFrame
               /\ ret' = FALSE
               /\ UNCHANGED main_pc
    /\ UNCHANGED main_rest

-----------------------------------------------------------------------------
(* The main loop: the interval scheduler (lines 1615-1699) *)

\* Line 1619, mutated: the in-flight flag is not consulted.
cv_should_runIgnoringFlag(current_time, last_time, processing) ==
    current_time - last_time >= cv_interval

\* Line 1619, mutated: the interval is taken one unit short.
cv_should_runEarly(current_time, last_time, processing) ==
    (current_time - last_time >= cv_interval - 1) /\ ~processing

\* Line 1619.
cv_should_run(current_time, last_time, processing) ==
    (current_time - last_time >= cv_interval) /\ ~processing

\* "frame is not None and ret"
FrameAvailable == frame # NoFrame /\ ret

\* threading.Thread(target=cv_processing_thread, args=(frame.copy(), ...)).start()
StartThread(f) ==
    LET i == CHOOSE k \in TaskIds :
                 /\ tasks[k].pc = "idle"
                 /\ \A j \in TaskIds : tasks[j].pc = "idle" => k <= j
    IN  [tasks EXCEPT ![i] = [IdleTask EXCEPT !.pc = "start", !.frame = f]]

sched_rest == << now, config_vars, source_vars, shutdown_flag, cap, frame, ret, slot_vars,
                 cache_vars, roi_out_vars, prev_cycle, last_raw_positive_time >>

\* Lines 1622-1634, mutated: the thread is given the frame itself and the main loop
\* goes on without it.
DispatchHandsFrameOver ==
    /\ main_pc = "sched"
    /\ cv_should_run(now, last_cv_time, cv_processing)
    /\ FrameAvailable
    /\ \E k \in TaskIds : tasks[k].pc = "idle"
    /\ last_cv_time' = now
    /\ cv_processing' = TRUE
    /\ \E c \in Contents : tasks' = StartThread([frame EXCEPT !.c = c])
    /\ last_dispatch_time' = now
    /\ frame' = NoFrame
    /\ ret' = FALSE
    /\ main_pc' = "render"
    /\ UNCHANGED << now, config_vars, source_vars, shutdown_flag, cap, slot_vars, cache_vars,
                    roi_out_vars, prev_cycle, last_raw_positive_time, history_vars >>

\* Lines 1622-1634 (threading is importable: HAS_THREADING is True).
Dispatch ==
    /\ main_pc = "sched"
    /\ cv_should_run(now, last_cv_time, cv_processing)
    /\ FrameAvailable
    /\ \E k \in TaskIds : tasks[k].pc = "idle"
    /\ last_cv_time' = now
    /\ cv_processing' = TRUE
    /\ \E c \in Contents : tasks' = StartThread([frame EXCEPT !.c = c])
    /\ last_dispatch_time' = now
    /\ main_pc' = "render"
    /\ UNCHANGED << sched_rest, history_vars >>

\* Lines 1688-1699, mutated: the no-frame branch records the time and appends nothing.
ScheduleNoFrameNoAppend ==
    /\ main_pc = "sched"
    /\ cv_should_run(now, last_cv_time, cv_processing)
    /\ ~FrameAvailable
    /\ last_cv_time' = now
    /\ main_pc' = "render"
    /\ UNCHANGED << sched_rest, cv_processing, tasks, last_dispatch_time, history_vars >>

\* Lines 1688-1699: the interval check passed and there is no frame.
ScheduleNoFrame ==
    /\ main_pc = "sched"
    /\ cv_should_run(now, last_cv_time, cv_processing)
    /\ ~FrameAvailable
    /\ last_cv_time' = now
    /\ car_history' = AppendHistory(car_history, FALSE)
    /\ history_appends' = history_appends + 1
    /\ main_pc' = "render"
    /\ UNCHANGED << sched_rest, cv_processing, tasks, last_dispatch_time >>

\* None of the branches of lines 1622-1699 is taken.
ScheduleSkip ==
    /\ main_pc = "sched"
    /\ ~cv_should_run(now, last_cv_time, cv_processing)
    /\ main_pc' = "render"
    /\ UNCHANGED << sched_rest, sched_vars, history_vars, tasks, last_dispatch_time >>

-----------------------------------------------------------------------------
(* The main loop: rendering (lines 1701-1746) and the end of the loop *)

render_rest == << now, config_vars, source_vars, shutdown_flag, cap, sched_vars, history_vars,
                  slot_vars, cache_vars, tasks,
                  detection_region, prev_cycle, last_dispatch_time,
                  last_raw_positive_time >>

\* Lines 1702-1704, then 1712-1746; the picture itself is followed in the rendering
\* specification below.
RenderFrame ==
    /\ main_pc = "render"
    /\ FrameAvailable
    /\ frame' = NoFrame
    /\ ret' = FALSE
    /\ main_pc' = "top"
    /\ UNCHANGED << display_region, display_image, render_rest >>

\* Lines 1705-1710: a placeholder of the configured size (640x480 for the full frame).
RenderPlaceholder ==
    /\ main_pc = "render"
    /\ ~FrameAvailable
    /\ roi.use_full_frame \/ (roi.roi_w # None /\ roi.roi_h # None)
    /\ main_pc' = "top"
    /\ UNCHANGED << frame, ret, display_region, display_image, render_rest >>

\* Line 1710 with roi_w = roi_h = None (point+quadrant configuration): Image.new raises,
\* the exception leaves the while loop (line 1750) and the finally block releases cap.
RenderPlaceholderRaises ==
    /\ main_pc = "render"
    /\ ~FrameAvailable
    /\ ~roi.use_full_frame
    /\ roi.roi_w = None \/ roi.roi_h = None
    /\ main_pc' = "done"
    /\ cap' = None
    /\ UNCHANGED << now, config_vars, source_vars, shutdown_flag, frame, ret, sched_vars,
                    history_vars, slot_vars,
                    cache_vars, tasks, roi_out_vars, prev_cycle, last_dispatch_time,
                    last_raw_positive_time >>

-----------------------------------------------------------------------------
(* The background thread: cv_processing_thread (lines 1340-1402) *)

thread_rest == << config_vars, source_vars, shutdown_flag, cap, main_pc, frame, ret,
                  display_region, display_image, last_dispatch_time >>

\* Lines 1341-1360: read the cache state under the lock, run process_cv_detection.
CvDetect(i) ==
    /\ tasks[i].pc = "start"
    /\ \E outcome \in DetectorOutcomes :
          LET r == process_cv_detection(tasks[i].frame, roi, last_frame_hash,
                                        last_frame_detection_result, last_car_detection_time,
                                        temporal_smoothing_window, outcome, now)
          IN  /\ tasks' = [tasks EXCEPT ![i] =
                    [pc |-> "cache", frame |-> tasks[i].frame,
                     car_detected |-> r.car_detected, detections |-> r.detections,
                     frame_size |-> r.frame_size, frame_hash |-> r.frame_hash,
                     raw |-> r.raw, ran_detector |-> r.ran_detector,
                     cache_hit |-> r.cache_hit, failed |-> r.failed,
                     published |-> FALSE, appended |-> FALSE, raised_at |-> "no"]]
    /\ UNCHANGED << now, thread_rest, sched_vars, history_vars, slot_vars, cache_vars,
                    detection_region, prev_cycle, last_raw_positive_time >>

\* Lines 1362-1378, mutated: the thread goes on to the history append, leaving out
\* the publication of lines 1379-1386.
CvUpdateCacheThenHistory(i) ==
    /\ tasks[i].pc = "cache"
    /\ IF tasks[i].frame_hash # None
       THEN /\ last_frame_hash' = tasks[i].frame_hash
            /\ last_frame_detection_result' =
                   << tasks[i].car_detected, tasks[i].detections, tasks[i].frame_size >>
            /\ last_car_detection_time' =
                   IF tasks[i].car_detected THEN now ELSE last_car_detection_time
       ELSE UNCHANGED cache_vars
    /\ last_raw_positive_time' =
           IF tasks[i].raw \/ (tasks[i].cache_hit /\ tasks[i].car_detected)
           THEN now
           ELSE last_raw_positive_time
    /\ tasks' = [tasks EXCEPT ![i].pc = "history"]
    /\ UNCHANGED << now, thread_rest, sched_vars, history_vars, slot_vars, detection_region,
                    prev_cycle >>

\* Lines 1362-1378, mutated: an entry already in the cache is not replaced.
CvUpdateCacheKeepsFirst(i) ==
    /\ tasks[i].pc = "cache"
    /\ IF tasks[i].frame_hash # None
       THEN /\ last_frame_hash' =
                   IF last_frame_hash = None THEN tasks[i].frame_hash ELSE last_frame_hash
            /\ last_frame_detection_result' =
                   IF last_frame_hash = None
                   THEN << tasks[i].car_detected, tasks[i].detections, tasks[i].frame_size >>
                   ELSE last_frame_detection_result
            /\ last_car_detection_time' =
                   IF tasks[i].car_detected THEN now ELSE last_car_detection_time
       ELSE UNCHANGED cache_vars
    /\ last_raw_positive_time' =
           IF tasks[i].raw \/ (tasks[i].cache_hit /\ tasks[i].car_detected)
           THEN now
           ELSE last_raw_positive_time
    /\ tasks' = [tasks EXCEPT ![i].pc = "publish"]
    /\ UNCHANGED << now, thread_rest, sched_vars, history_vars, slot_vars, detection_region,
                    prev_cycle >>

\* Lines 1362-1378, mutated: the entry and the timestamp are stored whether or not the
\* cycle returned a fingerprint.
CvUpdateCacheStoresFailure(i) ==
    /\ tasks[i].pc = "cache"
    /\ last_frame_hash' = tasks[i].frame_hash
    /\ last_frame_detection_result' =
           << tasks[i].car_detected, tasks[i].detections, tasks[i].frame_size >>
    /\ last_car_detection_time' = now
    /\ last_raw_positive_time' =
           IF tasks[i].raw \/ (tasks[i].cache_hit /\ tasks[i].car_detected)
           THEN now
           ELSE last_raw_positive_time
    /\ tasks' = [tasks EXCEPT ![i].pc = "publish"]
    /\ UNCHANGED << now, thread_rest, sched_vars, history_vars, slot_vars, detection_region,
                    prev_cycle >>

\* Lines 1362-1378: the cache entry and the smoothing timestamp.
CvUpdateCache(i) ==
    /\ tasks[i].pc = "cache"
    /\ IF tasks[i].frame_hash # None
       THEN /\ last_frame_hash' = tasks[i].frame_hash
            /\ last_frame_detection_result' =
                   << tasks[i].car_detected, tasks[i].detections, tasks[i].frame_size >>
            /\ last_car_detection_time' =
                   IF tasks[i].car_detected THEN now ELSE last_car_detection_time
       ELSE UNCHANGED cache_vars
    /\ last_raw_positive_time' =
           IF tasks[i].raw \/ (tasks[i].cache_hit /\ tasks[i].car_detected)
           THEN now
           ELSE last_raw_positive_time
    /\ tasks' = [tasks EXCEPT ![i].pc = "publish"]
    /\ UNCHANGED << now, thread_rest, sched_vars, history_vars, slot_vars, detection_region,
                    prev_cycle >>

\* Lines 1379-1383, mutated: the two assignments are made without display_lock, so
\* other threads run between them.
CvPublishUnlocked(i) ==
    /\ tasks[i].pc = "publish"
    /\ IF ~tasks[i].published
       THEN /\ latest_detections' = tasks[i].detections
            /\ tasks' = [tasks EXCEPT ![i].published = TRUE]
            /\ UNCHANGED latest_detection_frame_size
       ELSE /\ latest_detection_frame_size' = tasks[i].frame_size
            /\ tasks' = [tasks EXCEPT ![i].pc = "history"]
            /\ UNCHANGED latest_detections
    /\ UNCHANGED << now, thread_rest, sched_vars, history_vars, cache_vars, detection_region,
                    prev_cycle, last_raw_positive_time >>

\* Lines 1379-1386: the published detection slot.
CvPublish(i) ==
    /\ tasks[i].pc = "publish"
    /\ latest_detections' = tasks[i].detections
    /\ latest_detection_frame_size' = tasks[i].frame_size
    /\ tasks' = [tasks EXCEPT ![i].pc = "history", ![i].published = TRUE]
    /\ UNCHANGED << now, thread_rest, sched_vars, history_vars, cache_vars, detection_region,
                    prev_cycle, last_raw_positive_time >>

\* Lines 1388-1398: the history append.
CvAppendHistory(i) ==
    /\ tasks[i].pc = "history"
    /\ car_history' = AppendHistory(car_history, tasks[i].car_detected)
    /\ history_appends' = history_appends + 1
    /\ tasks' = [tasks EXCEPT ![i].pc = "finally", ![i].appended = TRUE]
    /\ UNCHANGED << now, thread_rest, sched_vars, slot_vars, cache_vars, detection_region,
                    prev_cycle, last_raw_positive_time >>

\* Lines 1401-1402, mutated: the in-flight flag is left set.
CvFinallyKeepsFlag(i) ==
    /\ tasks[i].pc = "finally"
    /\ tasks' = [tasks EXCEPT ![i] = IdleTask]
    /\ UNCHANGED << now, thread_rest, sched_vars, history_vars, slot_vars, cache_vars,
                    detection_region, prev_cycle, last_raw_positive_time >>

\* Lines 1401-1402: the in-flight flag is cleared and the thread ends.
CvFinally(i) ==
    /\ tasks[i].pc = "finally"
    /\ cv_processing' = FALSE
    /\ prev_cycle' =
           [valid |-> TRUE, content |-> tasks[i].frame.c,
            car_detected |-> tasks[i].car_detected,
            detections |-> tasks[i].detections, frame_size |-> tasks[i].frame_size,
            frame_hash |-> tasks[i].frame_hash, ran_detector |-> tasks[i].ran_detector,
            failed |-> tasks[i].failed, raised_at |-> tasks[i].raised_at]
    /\ tasks' = [tasks EXCEPT ![i] = IdleTask]
    /\ UNCHANGED << now, thread_rest, last_cv_time, history_vars, slot_vars, cache_vars,
                    detection_region, last_raw_positive_time >>

-----------------------------------------------------------------------------
(* The pipeline specification *)

Next ==
    \/ Tick
    \/ NoSourceTop
    \/ Reopen
    \/ RtspRead
    \/ Dispatch
    \/ ScheduleNoFrame
    \/ ScheduleSkip
    \/ RenderFrame
    \/ RenderPlaceholder
    \/ RenderPlaceholderRaises
    \/ \E i \in TaskIds : CvDetect(i)
    \/ \E i \in TaskIds : CvUpdateCache(i)
    \/ \E i \in TaskIds : CvPublish(i)
    \/ \E i \in TaskIds : CvAppendHistory(i)
    \/ \E i \in TaskIds : CvFinally(i)

Spec == Init /\ [][Next]_vars

-----------------------------------------------------------------------------
(* The pipeline with exceptions in the body of cv_processing_thread *)

\* Lines 1399-1400: a statement of the try body raises; "except Exception" logs the
\* error and control passes to the finally block, skipping the rest of the body.
CvRaise(i) ==
    /\ tasks[i].pc \in {"start", "cache", "publish", "history"}
    /\ tasks' = [tasks EXCEPT ![i].pc = "finally", ![i].raised_at = tasks[i].pc]
    /\ UNCHANGED << now, thread_rest, sched_vars, history_vars, slot_vars, cache_vars,
                    detection_region, prev_cycle, last_raw_positive_time >>

\* One statement group of thread i runs to its end.
ThreadStep(i) ==
    \/ CvDetect(i)
    \/ CvUpdateCache(i)
    \/ CvPublish(i)
    \/ CvAppendHistory(i)
    \/ CvFinally(i)

\* A network stream is connected and the program has been running for some time.
InitFault ==
    /\ now = MaxTime - 2
    /\ source_kind = "rtsp"
    /\ roi = CoordinatesConfig(1, 0, MaxFrameDim, MaxFrameDim)
    /\ cap = MaxFrameDim
    /\ temporal_smoothing_cycles = MaxSmoothingCycles
    /\ main_pc = "top"
    /\ frame = NoFrame
    /\ ret = FALSE
    /\ last_cv_time = now
    /\ cv_processing = FALSE
    /\ detection_config = RunningThresholds
    /\ url_option = StreamUrlOption
    /\ rtsp_url = (IF source_kind = "rtsp" THEN get_rtsp_url(url_option) ELSE NoUrl)
    /\ car_history = << >>
    /\ latest_detections = NoneDetections
    /\ latest_detection_frame_size = NoneSize
    /\ last_frame_hash = None
    /\ last_frame_detection_result = NoneResult
    /\ last_car_detection_time = None
    /\ tasks = [i \in TaskIds |-> IdleTask]
    /\ detection_region = NoRegion
    /\ display_region = NoRegion
    /\ display_image = NoImage
    /\ prev_cycle = NoCycle
    /\ last_dispatch_time = None
    /\ last_raw_positive_time = None
    /\ history_appends = 0
    /\ SourceIdle

NextFault ==
    \/ Tick
    \/ Reopen
    \/ RtspRead
    \/ Dispatch
    \/ ScheduleSkip
    \/ RenderFrame
    \/ \E i \in TaskIds : CvDetect(i)
    \/ \E i \in TaskIds : CvUpdateCache(i)
    \/ \E i \in TaskIds : CvPublish(i)
    \/ \E i \in TaskIds : CvAppendHistory(i)
    \/ \E i \in TaskIds : CvFinally(i)
    \/ \E i \in TaskIds : CvRaise(i)

SpecFault == InitFault /\ [][NextFault]_vars

\* A started thread is scheduled until it returns.
SpecFaultLive == SpecFault /\ \A i \in TaskIds : WF_vars(ThreadStep(i))

-----------------------------------------------------------------------------
(* The region specification: the two resolvers applied to every configuration *)
(* and every frame size of the bounds.                                         *)

RoiNumbers == (0 - 1)..MaxRoiCoord

RoiConfigs ==
    {FullFrameConfig}
      \cup {CoordinatesConfig(x, y, w, h) : x \in RoiNumbers, y \in RoiNumbers,
                                            w \in RoiNumbers, h \in RoiNumbers}
      \cup {PointQuadrantConfig(px, py, q) : px \in RoiNumbers, py \in RoiNumbers, q \in 0..5}

InitRoi ==
    /\ now = 0
    /\ source_kind = "rtsp"
    /\ cap = None
    /\ roi \in RoiConfigs
    /\ temporal_smoothing_cycles = MaxSmoothingCycles
    /\ main_pc = "top"
    /\ frame = NoFrame
    /\ ret = FALSE
    /\ last_cv_time = 0
    /\ cv_processing = FALSE
    /\ detection_config = RunningThresholds
    /\ url_option = StreamUrlOption
    /\ rtsp_url = (IF source_kind = "rtsp" THEN get_rtsp_url(url_option) ELSE NoUrl)
    /\ car_history = << >>
    /\ latest_detections = NoneDetections
    /\ latest_detection_frame_size = NoneSize
    /\ last_frame_hash = None
    /\ last_frame_detection_result = NoneResult
    /\ last_car_detection_time = None
    /\ tasks = [i \in TaskIds |-> IdleTask]
    /\ detection_region = NoRegion
    /\ display_region = NoRegion
    /\ display_image = NoImage
    /\ prev_cycle = NoCycle
    /\ last_dispatch_time = None
    /\ last_raw_positive_time = None
    /\ history_appends = 0
    /\ SourceIdle

roi_rest == << now, config_vars, source_vars, shutdown_flag, cap, main_pc, ret, sched_vars,
               history_vars, slot_vars,
               cache_vars, tasks, prev_cycle, last_dispatch_time, last_raw_positive_time >>

\* cap.read() delivers a frame; frame.shape[:2] gives its height and width.
RoiFrame ==
    /\ \E w \in 1..MaxRoiFrame, h \in 1..MaxRoiFrame : frame' = [w |-> w, h |-> h, c |-> None]
    /\ detection_region' = NoRegion
    /\ display_region' = NoRegion
    /\ UNCHANGED << display_image, roi_rest >>

\* process_cv_detection, lines 1162-1194.
RoiDetect ==
    /\ frame # NoFrame
    /\ detection_region' = RegionOf(DetectionRegion(roi, frame.w, frame.h), frame.w, frame.h)
    /\ UNCHANGED << frame, display_region, display_image, roi_rest >>

\* prepare_display_image, lines 1282-1313.
RoiDisplay ==
    /\ frame # NoFrame
    /\ display_region' = RegionOf(DisplayRegion(roi, frame.w, frame.h), frame.w, frame.h)
    /\ UNCHANGED << frame, detection_region, display_image, roi_rest >>

NextRoi ==
    \/ RoiFrame
    \/ RoiDetect
    \/ RoiDisplay

SpecRoi == InitRoi /\ [][NextRoi]_vars

-----------------------------------------------------------------------------
(* The source supervisor: connect, read, retry, release and reconnect, one   *)
(* statement group per step.  Sleeps are counted in tenths of a second.       *)

RetryDelay == 1             \* time.sleep(0.1) between read retries
ReopenDelay == 10           \* time.sleep(1) after a connect call at the top of the loop
RtspDeadDelay == 50         \* time.sleep(5) after the reconnect of a dead stream
FileDeadDelay == 5          \* time.sleep(0.5) after the reopen of a dead file

\* What the source does on a connect call: the capture does not open, it opens and
\* the probe read gives no frame (ret false or frame None), the call raises, or the
\* probe frame is read; a local file may also be missing from the disk.
RtspOpenOutcomes == {"not_opened", "no_probe", "raises", "ok"}
FileOpenOutcomes == {"missing", "not_opened", "no_probe", "raises", "ok"}

\* Lines 782-841, mutated: the probe read is not checked.
connect_to_rtsp_streamNoProbe(outcome, width) ==
    IF outcome \in {"ok", "no_probe"} THEN [cap |-> width, handle |-> "open"]
    ELSE IF outcome = "not_opened" THEN [cap |-> None, handle |-> "released"]
    ELSE [cap |-> None, handle |-> "dropped"]

\* Lines 782-841, mutated: the opened capture is not returned.
connect_to_rtsp_streamReturnsNone(outcome, width) ==
    IF outcome = "ok" THEN [cap |-> None, handle |-> "dropped"]
    ELSE IF outcome \in {"not_opened", "no_probe"} THEN [cap |-> None, handle |-> "released"]
    ELSE [cap |-> None, handle |-> "dropped"]

\* Lines 782-841: the returned capture (None on failure) and what became of the
\* cv2.VideoCapture object the call made.
connect_to_rtsp_stream(outcome, width) ==
    IF outcome = "ok" THEN [cap |-> width, handle |-> "open"]
    ELSE IF outcome \in {"not_opened", "no_probe"} THEN [cap |-> None, handle |-> "released"]
    ELSE [cap |-> None, handle |-> "dropped"]

\* Lines 741-780.  A capture that did not open is returned from without release().
connect_to_local_file(outcome, width) ==
    IF outcome = "ok" THEN [cap |-> width, handle |-> "open"]
    ELSE IF outcome = "missing" THEN [cap |-> None, handle |-> "none"]
    ELSE IF outcome = "no_probe" THEN [cap |-> None, handle |-> "released"]
    ELSE [cap |-> None, handle |-> "dropped"]

OpenOutcomes == IF source_kind = "rtsp" THEN RtspOpenOutcomes ELSE FileOpenOutcomes

Connect(outcome, width) ==
    IF source_kind = "rtsp"
    THEN connect_to_rtsp_stream(outcome, width)
    ELSE connect_to_local_file(outcome, width)

\* time.sleep(d) seen by a running count of slept time.
Elapse(x, d) == IF x = None THEN None ELSE Min(x + d, MaxElapsed)

\* Line 1592, mutated: one retry more.
ShouldRetryFourTimes(count, got) == count < 4 /\ ~got

\* Line 1592: "while retry_count < 3 and not ret"
ShouldRetry(count, got) == count < 3 /\ ~got

pipeline_vars == << now, shutdown_flag, config_vars, sched_vars, history_vars, slot_vars,
                   cache_vars, tasks,
                   roi_out_vars, prev_cycle, last_dispatch_time, last_raw_positive_time >>

\* A connect call and the bookkeeping of its result.  A file that opened is back at
\* frame 0 after the probe read (line 775); a new stream starts at its first frame.
OpenWith(outcome, width) ==
    LET c == Connect(outcome, width)
    IN  /\ outcome # "ok" => faults_left > 0
        /\ cap' = c.cap
        /\ handle' = c.handle
        /\ open_outcome' = outcome
        /\ faults_left' = IF outcome = "ok" THEN faults_left ELSE faults_left - 1
        /\ failed_opens' = IF outcome = "ok" THEN failed_opens ELSE failed_opens + 1
        /\ position' = IF outcome = "ok" THEN 0 ELSE position

\* Lines 944-966: the connect call before the main loop.
SrcInitialConnect ==
    /\ main_pc = "init"
    /\ \E outcome \in OpenOutcomes, width \in StreamWidths : OpenWith(outcome, width)
    /\ main_pc' = "top"
    /\ UNCHANGED << pipeline_vars, frame, ret, retry_count, reads_failed, since_release,
                    since_open >>

\* Lines 1543-1545 and 1572-1574: cap is None, connect.
SrcReopen ==
    /\ main_pc = "top"
    /\ ~shutdown_flag
    /\ cap = None
    /\ \E outcome \in OpenOutcomes, width \in StreamWidths :
          /\ OpenWith(outcome, width)
          /\ since_release' = IF outcome = "ok" THEN None ELSE since_release
          /\ since_open' = IF outcome = "ok" THEN None ELSE 0
    /\ main_pc' = "reopen_sleep"
    /\ UNCHANGED << pipeline_vars, frame, ret, retry_count, reads_failed >>

\* Lines 1546-1547 and 1575-1576: time.sleep(1); continue.
SrcReopenSleep ==
    /\ main_pc = "reopen_sleep"
    /\ since_release' = Elapse(since_release, ReopenDelay)
    /\ since_open' = Elapse(since_open, ReopenDelay)
    /\ main_pc' = "top"
    /\ UNCHANGED << pipeline_vars, cap, frame, ret, retry_count, reads_failed, handle,
                    open_outcome, faults_left, failed_opens, position >>

\* The next read of a local file finds no frame left.
EndOfFile == source_kind = "file" /\ position = FileFrames

\* Lines 1549-1556 and 1580-1591: the first read of the iteration (a read that
\* raises counts as ret = False).  A file read fails at the end of the file, and, as
\* any read, when the source fails.
SrcRead ==
    /\ main_pc = "top"
    /\ ~shutdown_flag
    /\ cap # None
    /\ \E got \in BOOLEAN :
          /\ got => ~EndOfFile
          /\ (~got /\ ~EndOfFile) => faults_left > 0
          /\ ret' = got
          /\ frame' = IF got THEN FrameOf(cap) ELSE NoFrame
          /\ reads_failed' = IF got THEN 0 ELSE 1
          /\ faults_left' = IF got \/ EndOfFile THEN faults_left ELSE faults_left - 1
          /\ position' = IF got /\ source_kind = "file" THEN position + 1 ELSE position
          /\ main_pc' = IF got THEN "sched"
                        ELSE IF source_kind = "rtsp" THEN "retry" ELSE "file_restart"
    /\ retry_count' = 0
    /\ UNCHANGED << pipeline_vars, cap, handle, open_outcome, since_release, since_open,
                    failed_opens >>

\* Lines 1592-1601: one round of the retry loop.
SrcRetry ==
    /\ main_pc = "retry"
    /\ ShouldRetry(retry_count, ret)
    /\ \E got \in BOOLEAN :
          /\ ~got => faults_left > 0
          /\ ret' = got
          /\ frame' = IF got THEN FrameOf(cap) ELSE NoFrame
          /\ reads_failed' = IF got THEN reads_failed ELSE reads_failed + 1
          /\ faults_left' = IF got THEN faults_left ELSE faults_left - 1
    /\ retry_count' = retry_count + 1
    /\ since_release' = Elapse(since_release, RetryDelay)
    /\ since_open' = Elapse(since_open, RetryDelay)
    /\ UNCHANGED << pipeline_vars, cap, main_pc, handle, open_outcome, failed_opens,
                    position >>

\* Lines 1592 and 1603: the retry loop ends; with a frame the iteration goes on to
\* the scheduler, without one the connection is given up.
SrcRetryExit ==
    /\ main_pc = "retry"
    /\ ~ShouldRetry(retry_count, ret)
    /\ main_pc' = IF ret THEN "sched" ELSE "dead"
    /\ UNCHANGED << pipeline_vars, cap, frame, ret, source_vars >>

\* Lines 1559-1564, mutated: the read is repeated without cap.set(CAP_PROP_POS_FRAMES, 0).
SrcFileRestartNoSeek ==
    /\ main_pc = "file_restart"
    /\ \E got \in BOOLEAN :
          /\ got => ~EndOfFile
          /\ (~got /\ ~EndOfFile) => faults_left > 0
          /\ ret' = got
          /\ frame' = IF got THEN FrameOf(cap) ELSE NoFrame
          /\ reads_failed' = IF got THEN reads_failed ELSE reads_failed + 1
          /\ faults_left' = IF got \/ EndOfFile THEN faults_left ELSE faults_left - 1
          /\ position' = IF got THEN position + 1 ELSE position
          /\ main_pc' = IF got THEN "sched" ELSE "dead"
    /\ UNCHANGED << pipeline_vars, cap, retry_count, handle, open_outcome, since_release,
                    since_open, failed_opens >>

\* Lines 1559-1564: the file is rewound to frame 0 and read again.
SrcFileRestart ==
    /\ main_pc = "file_restart"
    /\ \E got \in BOOLEAN :
          /\ ~got => faults_left > 0
          /\ ret' = got
          /\ frame' = IF got THEN FrameOf(cap) ELSE NoFrame
          /\ reads_failed' = IF got THEN reads_failed ELSE reads_failed + 1
          /\ faults_left' = IF got THEN faults_left ELSE faults_left - 1
          /\ position' = IF got THEN 1 ELSE 0
          /\ main_pc' = IF got THEN "sched" ELSE "dead"
    /\ UNCHANGED << pipeline_vars, cap, retry_count, handle, open_outcome, since_release,
                    since_open, failed_opens >>

\* Lines 1566 and 1605-1606: cap.release().
SrcRelease ==
    /\ main_pc = "dead"
    /\ handle' = "released"
    /\ since_release' = 0
    /\ since_open' = None
    /\ failed_opens' = 0
    /\ main_pc' = "dead_open"
    /\ UNCHANGED << pipeline_vars, cap, frame, ret, retry_count, reads_failed, open_outcome,
                    faults_left, position >>

\* Lines 1567 and 1607: the connect call that follows the release.
SrcDeadOpen ==
    /\ main_pc = "dead_open"
    /\ \E outcome \in OpenOutcomes, width \in StreamWidths :
          /\ OpenWith(outcome, width)
          /\ since_release' = IF outcome = "ok" THEN None ELSE since_release
          /\ since_open' = IF outcome = "ok" THEN None ELSE 0
    /\ main_pc' = "dead_sleep"
    /\ UNCHANGED << pipeline_vars, frame, ret, retry_count, reads_failed >>

\* Lines 1568-1569 and 1608-1609: time.sleep(0.5) or time.sleep(5); continue.
SrcDeadSleep ==
    /\ main_pc = "dead_sleep"
    /\ LET d == IF source_kind = "rtsp" THEN RtspDeadDelay ELSE FileDeadDelay
       IN  /\ since_release' = Elapse(since_release, d)
           /\ since_open' = Elapse(since_open, d)
    /\ main_pc' = "top"
    /\ UNCHANGED << pipeline_vars, cap, frame, ret, retry_count, reads_failed, handle,
                    open_outcome, faults_left, failed_opens, position >>

\* A configured source, not yet connected; the source fails at most MaxFaults times.
InitSource ==
    /\ now = 0
    /\ source_kind \in {"rtsp", "file"}
    /\ roi = FullFrameConfig
    /\ cap = None
    /\ temporal_smoothing_cycles = MaxSmoothingCycles
    /\ main_pc = "init"
    /\ frame = NoFrame
    /\ ret = FALSE
    /\ last_cv_time = 0
    /\ cv_processing = FALSE
    /\ detection_config = RunningThresholds
    /\ url_option = StreamUrlOption
    /\ rtsp_url = (IF source_kind = "rtsp" THEN get_rtsp_url(url_option) ELSE NoUrl)
    /\ car_history = << >>
    /\ latest_detections = NoneDetections
    /\ latest_detection_frame_size = NoneSize
    /\ last_frame_hash = None
    /\ last_frame_detection_result = NoneResult
    /\ last_car_detection_time = None
    /\ tasks = [i \in TaskIds |-> IdleTask]
    /\ detection_region = NoRegion
    /\ display_region = NoRegion
    /\ display_image = NoImage
    /\ prev_cycle = NoCycle
    /\ last_dispatch_time = None
    /\ last_raw_positive_time = None
    /\ history_appends = 0
    /\ retry_count = 0
    /\ reads_failed = 0
    /\ handle = "none"
    /\ open_outcome = "none"
    /\ since_release = None
    /\ since_open = None
    /\ faults_left = MaxFaults
    /\ failed_opens = 0
    /\ position = 0
    /\ shutdown_flag = FALSE

NextSource ==
    \/ SrcInitialConnect
    \/ SrcReopen
    \/ SrcReopenSleep
    \/ SrcRead
    \/ SrcRetry
    \/ SrcRetryExit
    \/ SrcFileRestart
    \/ SrcRelease
    \/ SrcDeadOpen
    \/ SrcDeadSleep
    \/ ScheduleSkip
    \/ RenderFrame

SpecSource == InitSource /\ [][NextSource]_vars

\* The main loop keeps running: every sleep returns and every call comes back.
SpecSourceLive == SpecSource /\ WF_vars(NextSource)

-----------------------------------------------------------------------------
(* Shutdown: signal_handler, the loop condition and the cleanup, on top of the *)
(* source supervisor, the scheduler and the background thread.                 *)

\* Lines 609-613: SIGINT or SIGTERM arrives while the program runs.
signal_handler ==
    /\ main_pc # "done"
    /\ ~shutdown_flag
    /\ shutdown_flag' = TRUE
    /\ UNCHANGED << now, config_vars, source_vars, cap, main_pc, frame, ret, sched_vars,
                    history_vars, slot_vars, cache_vars, tasks, roi_out_vars, prev_cycle,
                    last_dispatch_time, last_raw_positive_time >>

\* Lines 1539 and 1752-1758, mutated: the cleanup waits for the detection threads.
LoopExitAfterJoin ==
    /\ main_pc = "top"
    /\ shutdown_flag
    /\ InFlight = {}
    /\ cap' = None
    /\ handle' = IF cap # None THEN "released" ELSE handle
    /\ main_pc' = "done"
    /\ UNCHANGED << pipeline_vars, frame, ret, retry_count, reads_failed, open_outcome,
                    since_release, since_open, faults_left, failed_opens, position >>

\* Lines 1539 and 1752-1758: "while not shutdown_flag" is false, the finally block
\* releases the capture when there is one, and the program ends.
LoopExit ==
    /\ main_pc = "top"
    /\ shutdown_flag
    /\ cap' = None
    /\ handle' = IF cap # None THEN "released" ELSE handle
    /\ main_pc' = "done"
    /\ UNCHANGED << pipeline_vars, frame, ret, retry_count, reads_failed, open_outcome,
                    since_release, since_open, faults_left, failed_opens, position >>

\* Time passes while the main loop runs.
LoopTick == main_pc \notin {"init", "done"} /\ Tick

\* A statement group of the main thread.
MainThreadStep ==
    \/ SrcInitialConnect
    \/ SrcReopen
    \/ SrcReopenSleep
    \/ SrcRead
    \/ SrcRetry
    \/ SrcRetryExit
    \/ SrcFileRestart
    \/ SrcRelease
    \/ SrcDeadOpen
    \/ SrcDeadSleep
    \/ Dispatch
    \/ ScheduleSkip
    \/ RenderFrame
    \/ LoopExit

\* A statement group of a detection thread; the threads are daemon threads (line 1632)
\* and end with the program.
DaemonStep(i) == main_pc # "done" /\ ThreadStep(i)

\* The program is about to connect; the clock is one interval before its bound.
InitShutdown ==
    /\ now = MaxTime - 1
    /\ source_kind \in {"rtsp", "file"}
    /\ roi = FullFrameConfig
    /\ cap = None
    /\ temporal_smoothing_cycles = MaxSmoothingCycles
    /\ main_pc = "init"
    /\ frame = NoFrame
    /\ ret = FALSE
    /\ last_cv_time = now
    /\ cv_processing = FALSE
    /\ detection_config = RunningThresholds
    /\ url_option = StreamUrlOption
    /\ rtsp_url = (IF source_kind = "rtsp" THEN get_rtsp_url(url_option) ELSE NoUrl)
    /\ car_history = << >>
    /\ latest_detections = NoneDetections
    /\ latest_detection_frame_size = NoneSize
    /\ last_frame_hash = None
    /\ last_frame_detection_result = NoneResult
    /\ last_car_detection_time = None
    /\ tasks = [i \in TaskIds |-> IdleTask]
    /\ detection_region = NoRegion
    /\ display_region = NoRegion
    /\ display_image = NoImage
    /\ prev_cycle = NoCycle
    /\ last_dispatch_time = None
    /\ last_raw_positive_time = None
    /\ history_appends = 0
    /\ retry_count = 0
    /\ reads_failed = 0
    /\ handle = "none"
    /\ open_outcome = "none"
    /\ since_release = None
    /\ since_open = None
    /\ faults_left = MaxFaults
    /\ failed_opens = 0
    /\ position = 0
    /\ shutdown_flag = FALSE

NextShutdown ==
    \/ signal_handler
    \/ LoopTick
    \/ MainThreadStep
    \/ \E i \in TaskIds : DaemonStep(i)

SpecShutdown == InitShutdown /\ [][NextShutdown]_vars

\* The main thread keeps running: every sleep returns and every call comes back.
\* Nothing is assumed about the progress of the detection threads.
SpecShutdownLive == SpecShutdown /\ WF_vars(MainThreadStep)

-----------------------------------------------------------------------------
(* A smoothing window of 0: the save-frame mode (lines 1405-1530), which passes  *)
(* the window 0.0 to process_cv_detection, and the monitoring loop configured    *)
(* with temporal_smoothing_cycles = 0.                                           *)

capture_rest == << now, config_vars, source_vars, shutdown_flag, sched_vars, history_vars,
                  slot_vars, cache_vars, tasks, roi_out_vars, last_dispatch_time,
                  last_raw_positive_time >>

\* Lines 1427-1448: no capture, or cap.read() for the next frame of the series.
CaptureRead ==
    /\ main_pc = "capture"
    /\ IF cap = None
       THEN /\ main_pc' = "done"
            /\ UNCHANGED << frame, ret >>
       ELSE \E got \in BOOLEAN, c \in Contents :
               /\ ret' = got
               /\ frame' = IF got THEN [FrameOf(cap) EXCEPT !.c = c] ELSE NoFrame
               /\ main_pc' = IF got THEN "capture_detect" ELSE "capture_next"
    /\ UNCHANGED << cap, prev_cycle, capture_rest >>

\* Lines 1450-1483: the synchronous detection, without cache, without timestamp and
\* with the window 0.0; its result stays in local variables.
CaptureDetect ==
    /\ main_pc = "capture_detect"
    /\ \E outcome \in DetectorOutcomes :
          LET r == process_cv_detection(frame, roi, None, NoneResult, None, 0, outcome, now)
          IN  prev_cycle' =
                 [valid |-> TRUE, content |-> frame.c, car_detected |-> r.car_detected,
                  detections |-> r.detections, frame_size |-> r.frame_size,
                  frame_hash |-> r.frame_hash, ran_detector |-> r.ran_detector,
                  failed |-> r.failed, raised_at |-> "no"]
    /\ main_pc' = "capture_next"
    /\ UNCHANGED << cap, frame, ret, capture_rest >>

\* Lines 1485-1530: the image is saved; the series goes on (args.count) or the
\* program releases the capture and exits.
CaptureNext ==
    /\ main_pc = "capture_next"
    /\ \E last \in BOOLEAN :
          /\ main_pc' = IF last THEN "done" ELSE "capture"
          /\ cap' = IF last THEN None ELSE cap
    /\ frame' = NoFrame
    /\ ret' = FALSE
    /\ UNCHANGED << prev_cycle, capture_rest >>

\* The program starts in save-frame mode (args.save_frame) with any configured number
\* of smoothing cycles, or in monitoring mode with temporal_smoothing_cycles = 0.
InitCapture ==
    /\ now = MaxTime - 2
    /\ source_kind = "rtsp"
    /\ roi = CoordinatesConfig(1, 0, MaxFrameDim, MaxFrameDim)
    /\ cap \in {None} \cup StreamWidths
    /\ main_pc \in {"capture", "top"}
    /\ temporal_smoothing_cycles \in {0, MaxSmoothingCycles}
    /\ main_pc = "top" => temporal_smoothing_cycles = 0
    /\ frame = NoFrame
    /\ ret = FALSE
    /\ last_cv_time = now
    /\ cv_processing = FALSE
    /\ detection_config = RunningThresholds
    /\ url_option = StreamUrlOption
    /\ rtsp_url = (IF source_kind = "rtsp" THEN get_rtsp_url(url_option) ELSE NoUrl)
    /\ car_history = << >>
    /\ latest_detections = NoneDetections
    /\ latest_detection_frame_size = NoneSize
    /\ last_frame_hash = None
    /\ last_frame_detection_result = NoneResult
    /\ last_car_detection_time = None
    /\ tasks = [i \in TaskIds |-> IdleTask]
    /\ detection_region = NoRegion
    /\ display_region = NoRegion
    /\ display_image = NoImage
    /\ prev_cycle = NoCycle
    /\ last_dispatch_time = None
    /\ last_raw_positive_time = None
    /\ history_appends = 0
    /\ SourceIdle

NextCapture ==
    \/ Tick
    \/ CaptureRead
    \/ CaptureDetect
    \/ CaptureNext
    \/ Reopen
    \/ RtspRead
    \/ Dispatch
    \/ ScheduleSkip
    \/ RenderFrame
    \/ \E i \in TaskIds : ThreadStep(i)

SpecCapture == InitCapture /\ [][NextCapture]_vars

-----------------------------------------------------------------------------
(* Loading the detection configuration (lines 1052-1056): the configuration file *)
(* gives each option an integer or leaves it out.                                *)

ConfigValues == {None} \cup ((0 - 1)..MaxConfigValue)

\* config.getint(section, option, fallback=fallback): the value of the file, or the
\* fallback when the option is missing; no range is checked.
getint(value, fallback) == IF value = None THEN fallback ELSE value

NotLoaded ==
    [history_size |-> None, car_present_threshold |-> None, car_absent_threshold |-> None]

\* Lines 1054-1056.
LoadDetectionConfig ==
    /\ main_pc = "config"
    /\ \E size \in ConfigValues, present_value \in ConfigValues, absent_value \in ConfigValues :
          detection_config' =
             [history_size |-> getint(size, 120),
              car_present_threshold |-> getint(present_value, 80),
              car_absent_threshold |-> getint(absent_value, 40)]
    /\ main_pc' = "init"
    /\ UNCHANGED << now, source_kind, roi, temporal_smoothing_cycles, url_option, rtsp_url,
                    source_vars,
                    shutdown_flag, cap, frame, ret, sched_vars, history_vars, slot_vars,
                    cache_vars, tasks, roi_out_vars, prev_cycle, last_dispatch_time,
                    last_raw_positive_time >>

\* The program has parsed its configuration file and has not yet read the options.
InitConfig ==
    /\ now = 0
    /\ source_kind \in {"rtsp", "file", "none"}
    /\ roi = FullFrameConfig
    /\ cap = None
    /\ temporal_smoothing_cycles = MaxSmoothingCycles
    /\ main_pc = "config"
    /\ frame = NoFrame
    /\ ret = FALSE
    /\ last_cv_time = 0
    /\ cv_processing = FALSE
    /\ detection_config = NotLoaded
    /\ url_option = StreamUrlOption
    /\ rtsp_url = NoUrl
    /\ car_history = << >>
    /\ latest_detections = NoneDetections
    /\ latest_detection_frame_size = NoneSize
    /\ last_frame_hash = None
    /\ last_frame_detection_result = NoneResult
    /\ last_car_detection_time = None
    /\ tasks = [i \in TaskIds |-> IdleTask]
    /\ detection_region = NoRegion
    /\ display_region = NoRegion
    /\ display_image = NoImage
    /\ prev_cycle = NoCycle
    /\ last_dispatch_time = None
    /\ last_raw_positive_time = None
    /\ history_appends = 0
    /\ SourceIdle

NextConfig == LoadDetectionConfig

SpecConfig == InitConfig /\ [][NextConfig]_vars

-----------------------------------------------------------------------------
(* Resolving the stream address (lines 958-966): the url option of the RTSP section *)
(* is an address with up to MaxUrlParams query parameters, or blank.                *)

UrlParams ==
    { << "transport=", "tcp" >>, << "transport=", "udp" >>, << "x_transport=", "1" >>,
      << "channel=", "1" >> }

\* The texts of the url option: nothing, a blank, or an address with or without the
\* prefix, with blanks around it or not, and with its parameters joined by "&" after "?".
UrlOptions ==
    LET RECURSIVE QueryText(_)
        QueryText(params) ==
            IF params = << >> THEN << >>
            ELSE IF Len(params) = 1 THEN Head(params)
            ELSE Head(params) \o << "&" >> \o QueryText(Tail(params))
        ParamLists == UNION { [1..n -> UrlParams] : n \in 0..MaxUrlParams }
        AddressText(prefix, params) ==
            (IF prefix THEN << "rtsp://" >> ELSE << >>) \o << "cam" >>
               \o (IF params = << >> THEN << >> ELSE << "?" >> \o QueryText(params))
        Blank(blank) == IF blank THEN << " " >> ELSE << >>
    IN  { << >>, << " " >> }
           \cup { Blank(blank) \o AddressText(prefix, params) \o Blank(blank) :
                  blank \in BOOLEAN, prefix \in BOOLEAN, params \in ParamLists }

\* Line 960.
ResolveRtspUrl ==
    /\ main_pc = "config"
    /\ source_kind = "rtsp"
    /\ rtsp_url' = get_rtsp_url(url_option)
    /\ main_pc' = "init"
    /\ UNCHANGED << now, source_kind, roi, temporal_smoothing_cycles, detection_config,
                    url_option, source_vars,
                    shutdown_flag, cap, frame, ret, sched_vars, history_vars, slot_vars,
                    cache_vars, tasks, roi_out_vars, prev_cycle, last_dispatch_time,
                    last_raw_positive_time >>

\* The configuration file is parsed and use_local_file is false.
InitUrl ==
    /\ now = 0
    /\ source_kind = "rtsp"
    /\ roi = FullFrameConfig
    /\ cap = None
    /\ temporal_smoothing_cycles = MaxSmoothingCycles
    /\ main_pc = "config"
    /\ frame = NoFrame
    /\ ret = FALSE
    /\ last_cv_time = 0
    /\ cv_processing = FALSE
    /\ detection_config = RunningThresholds
    /\ url_option \in UrlOptions
    /\ rtsp_url = NoUrl
    /\ car_history = << >>
    /\ latest_detections = NoneDetections
    /\ latest_detection_frame_size = NoneSize
    /\ last_frame_hash = None
    /\ last_frame_detection_result = NoneResult
    /\ last_car_detection_time = None
    /\ tasks = [i \in TaskIds |-> IdleTask]
    /\ detection_region = NoRegion
    /\ display_region = NoRegion
    /\ display_image = NoImage
    /\ prev_cycle = NoCycle
    /\ last_dispatch_time = None
    /\ last_raw_positive_time = None
    /\ history_appends = 0
    /\ SourceIdle

NextUrl == ResolveRtspUrl

SpecUrl == InitUrl /\ [][NextUrl]_vars

\* The value of the URL's transport parameter, "unset" when it has none: the
\* parameters are the text after the first "?", split at "&".
TransportOf(url) ==
    LET RECURSIVE SplitAt(_, _)
        SplitAt(text, sep) ==
            IF \A i \in 1..Len(text) : text[i] # sep THEN << text >>
            ELSE LET k == CHOOSE i \in 1..Len(text) :
                             text[i] = sep /\ \A j \in 1..(i - 1) : text[j] # sep
                 IN  << SubSeq(text, 1, k - 1) >>
                        \o SplitAt(SubSeq(text, k + 1, Len(text)), sep)
        after == IF Contains(url, "?")
                 THEN LET k == CHOOSE i \in 1..Len(url) :
                                  url[i] = "?" /\ \A j \in 1..(i - 1) : url[j] # "?"
                      IN  SubSeq(url, k + 1, Len(url))
                 ELSE << >>
        q == IF after = << >> THEN << >> ELSE SplitAt(after, "&")
        hits == { i \in 1..Len(q) : Len(q[i]) = 2 /\ q[i][1] = "transport=" }
    IN  IF hits = {} THEN "unset"
        ELSE q[CHOOSE i \in hits : \A j \in hits : i <= j][2]

\* The url option holds an address.
UrlConfigured == strip(url_option) # << >>

-----------------------------------------------------------------------------
(* Rendering with the overlay (lines 1701-1734): the main loop is about to render a *)
(* frame of any size, or nothing, while the slot holds what some earlier cycle      *)
(* published.                                                                       *)

RenderConfigs ==
    { FullFrameConfig, CoordinatesConfig(1, 0, MaxFrameDim, MaxFrameDim),
      CoordinatesConfig(0, 1, 1, MaxFrameDim - 1), PointQuadrantConfig(1, 1, 4) }

RenderFrames == { [w |-> w, h |-> h, c |-> None] : w \in 1..MaxFrameDim, h \in 1..MaxFrameDim }

\* What the slot can hold: nothing yet, or the list (None after a failed detection) and
\* the region size of a cycle on a frame of some size (lines 1379-1386).
SlotPairs(cfg) ==
    { << NoneDetections, NoneSize >> }
       \cup { << d, RegionSize(DetectionRegion(cfg, f.w, f.h)) >> :
              d \in {NoneDetections} \cup {o.cls : o \in {x \in DetectorOutcomes : ~x.err}},
              f \in RenderFrames }

display_rest == << now, config_vars, source_vars, shutdown_flag, cap, sched_vars, history_vars,
                   slot_vars, cache_vars, tasks, detection_region, display_region, prev_cycle,
                   last_dispatch_time, last_raw_positive_time >>

\* Lines 1702-1704 and 1712-1734 with a frame.
DisplayFrame ==
    /\ main_pc = "render"
    /\ FrameAvailable
    /\ display_image' = Overlay(prepare_display_image(frame, roi), latest_detections,
                                latest_detection_frame_size)
    /\ frame' = NoFrame
    /\ ret' = FALSE
    /\ main_pc' = "top"
    /\ UNCHANGED display_rest

\* Lines 1705-1710 and 1712-1734 without a frame.
DisplayPlaceholder ==
    /\ main_pc = "render"
    /\ ~FrameAvailable
    /\ roi.use_full_frame \/ (roi.roi_w # None /\ roi.roi_h # None)
    /\ display_image' =
           Overlay(IF roi.use_full_frame
                   THEN create_placeholder_image(640, 480)
                   ELSE create_placeholder_image(roi.roi_w, roi.roi_h),
                   latest_detections, latest_detection_frame_size)
    /\ main_pc' = "top"
    /\ UNCHANGED << frame, ret, display_rest >>

InitRender ==
    /\ now = 0
    /\ source_kind = "rtsp"
    /\ cap = None
    /\ roi \in RenderConfigs
    /\ temporal_smoothing_cycles = MaxSmoothingCycles
    /\ main_pc = "render"
    /\ frame \in {NoFrame} \cup RenderFrames
    /\ ret = (frame # NoFrame)
    /\ last_cv_time = 0
    /\ cv_processing = FALSE
    /\ detection_config = RunningThresholds
    /\ url_option = StreamUrlOption
    /\ rtsp_url = get_rtsp_url(url_option)
    /\ car_history = << >>
    /\ \E pair \in SlotPairs(roi) :
          /\ latest_detections = pair[1]
          /\ latest_detection_frame_size = pair[2]
    /\ last_frame_hash = None
    /\ last_frame_detection_result = NoneResult
    /\ last_car_detection_time = None
    /\ tasks = [i \in TaskIds |-> IdleTask]
    /\ detection_region = NoRegion
    /\ display_region = NoRegion
    /\ display_image = NoImage
    /\ prev_cycle = NoCycle
    /\ last_dispatch_time = None
    /\ last_raw_positive_time = None
    /\ history_appends = 0
    /\ SourceIdle

NextRender ==
    \/ DisplayFrame
    \/ DisplayPlaceholder
    \/ RenderPlaceholderRaises

SpecRender == InitRender /\ [][NextRender]_vars

-----------------------------------------------------------------------------
(* Claims *)

Count(h) == Cardinality({k \in 1..Len(h) : h[k]})

\* Task i takes the step from the start of the thread to the end of process_cv_detection.
DetectStep(i) == tasks[i].pc = "start" /\ tasks'[i].pc = "cache"

\* The main loop takes its scheduling step and starts a thread in it.
ScheduleStep == main_pc = "sched" /\ main_pc' # "sched"
ThreadStarted == \E i \in TaskIds : tasks[i].pc = "idle" /\ tasks'[i].pc = "start"

\* C1: in every reachable state at most one background detection task is in flight,
\* and while one is in flight the in-flight flag cv_processing is set, so no interval
\* tick during that time starts a second task.
C1_AtMostOneDetectionInFlight ==
    /\ Cardinality(InFlight) <= 1
    /\ InFlight # {} => cv_processing

\* C1 witness: the main loop is at its scheduling step with a frame, the interval has
\* elapsed, and a detection is still running.
C1_Witness ==
    /\ main_pc = "sched"
    /\ FrameAvailable
    /\ now - last_cv_time >= cv_interval
    /\ \E i \in TaskIds : tasks[i].pc = "start"

\* C2 (as claimed): after a raw-positive cycle at t0 and no raw positive since, a cycle
\* whose raw output is negative is reported triggered exactly when it runs before
\* t0 + window, also when cycles in between were reported triggered by smoothing.
\* (A positive served from the cache is counted like a raw positive.)
C2_SmoothingEndsAtWindowAfterRawPositive ==
    [][\A i \in TaskIds :
          (/\ DetectStep(i)
           /\ tasks'[i].ran_detector
           /\ ~tasks'[i].failed
           /\ ~tasks'[i].raw
           /\ temporal_smoothing_window > 0
           /\ last_raw_positive_time # None)
          => (tasks'[i].car_detected <=> now - last_raw_positive_time < temporal_smoothing_window)
      ]_vars

\* C3 (as claimed): last_car_detection_time changes only in a cycle whose raw detector
\* output is triggered; a cycle reported triggered by smoothing alone leaves it as it is.
\* (A cycle served from the cache has no raw output of its own and is not held
\* against the claim.)
C3_TimestampOnlyFromRawPositive ==
    [][last_car_detection_time' # last_car_detection_time
          => \E i \in TaskIds : tasks[i].pc = "cache" /\ (tasks[i].raw \/ tasks[i].cache_hit)
      ]_vars

\* C4: one smoothing step on a freshly detected region gives
\* effective = raw OR (a last-positive timestamp exists AND now - timestamp < window),
\* the comparison being strict.
C4_SmoothingStep ==
    [][\A i \in TaskIds :
          (DetectStep(i) /\ tasks'[i].ran_detector /\ ~tasks'[i].failed)
          => (tasks'[i].car_detected <=>
                 (\/ tasks'[i].raw
                  \/ /\ last_car_detection_time # None
                     /\ now - last_car_detection_time < temporal_smoothing_window))
      ]_vars

\* C4 witness: a raw negative came out not triggered with a timestamp exactly one
\* window old.
C4_Witness ==
    \E i \in TaskIds :
        /\ tasks[i].pc = "cache"
        /\ tasks[i].ran_detector
        /\ ~tasks[i].failed
        /\ ~tasks[i].raw
        /\ ~tasks[i].car_detected
        /\ last_car_detection_time # None
        /\ now - last_car_detection_time = temporal_smoothing_window

\* C5 (as claimed): present is true when the history holds at least
\* car_present_threshold true entries and false when it holds at most
\* car_absent_threshold.
C5_HysteresisState ==
    /\ Count(car_history) >= car_present_threshold => present
    /\ Count(car_history) <= car_absent_threshold => ~present

\* C6: the history never holds more than history_size entries, and every append,
\* by the detection thread or by the main loop, adds the new entry at the end and,
\* on a full history, removes exactly the oldest entry.
C6_BoundedFifo ==
    [][/\ Len(car_history') <= history_size
       /\ history_appends' # history_appends =>
             \E v \in BOOLEAN :
                 IF Len(car_history) < history_size
                 THEN car_history' = Append(car_history, v)
                 ELSE car_history' = Append(Tail(car_history), v)
      ]_vars

\* C6 witness: more appends than the capacity have completed, the last of them by
\* the detection thread, and the full history holds both values.
C6_Witness ==
    /\ history_appends > history_size
    /\ Len(car_history) = history_size
    /\ \E i \in TaskIds : tasks[i].pc = "finally"
    /\ car_history[1] # car_history[history_size]

\* The result tuple (triggered, detections, regionSize) of a cycle.
ResultOf(t) == << t.car_detected, t.detections, t.frame_size >>

\* Task i ends process_cv_detection on a region with the content and the size of
\* the previous cycle's region.
SameRegionAsPrevious(i) ==
    /\ DetectStep(i)
    /\ prev_cycle.valid
    /\ tasks[i].frame.c = prev_cycle.content
    /\ tasks'[i].frame_size = prev_cycle.frame_size

\* C7 (as claimed): two successive cycles on regions of identical content and size
\* invoke the Detector at most once, and the second returns the first's result,
\* whatever the outcome of the first.
C7_CacheIdempotentForEveryOutcome ==
    [][\A i \in TaskIds :
          SameRegionAsPrevious(i)
          => /\ ~(prev_cycle.ran_detector /\ tasks'[i].ran_detector)
             /\ ResultOf(tasks'[i]) = ResultOf(prev_cycle)
      ]_vars

\* C7 (amended): when the first of two successive cycles on regions of identical
\* content and size returned a fingerprint (its detection did not fail), the second
\* does not invoke the Detector and returns the first's result.
C7_CacheIdempotentAfterFingerprint ==
    [][\A i \in TaskIds :
          (SameRegionAsPrevious(i) /\ prev_cycle.frame_hash # None)
          => /\ ~tasks'[i].ran_detector
             /\ ResultOf(tasks'[i]) = ResultOf(prev_cycle)
      ]_vars

\* C7 witness: a cycle has been served from the cache on the region of the cycle
\* before it, which had run the Detector.
C7_Witness ==
    \E i \in TaskIds :
        /\ tasks[i].pc = "cache"
        /\ tasks[i].cache_hit
        /\ prev_cycle.valid
        /\ prev_cycle.ran_detector
        /\ tasks[i].frame.c = prev_cycle.content
        /\ tasks[i].frame_size = prev_cycle.frame_size

\* C8: the cached result is returned without a Detector call only if the current
\* fingerprint is not None, equals the cached fingerprint and the cached region size
\* equals the current one; with an equal fingerprint and another size the Detector runs.
C8_CacheHitNeedsFingerprintAndSize ==
    [][\A i \in TaskIds :
          DetectStep(i) =>
             LET h == compute_frame_hash(tasks[i].frame.c)
                 matches == /\ h # None
                            /\ h = last_frame_hash
                            /\ last_frame_detection_result # NoneResult
                 same_size == /\ last_frame_detection_result # NoneResult
                              /\ last_frame_detection_result[3] = tasks'[i].frame_size
             IN  /\ ~tasks'[i].ran_detector => (matches /\ same_size)
                 /\ (matches /\ ~same_size) => tasks'[i].ran_detector
      ]_vars

\* C8 witness: the Detector has just run on a region whose fingerprint equals the
\* cached one while the cached region size differs.
C8_Witness ==
    \E i \in TaskIds :
        /\ tasks[i].pc = "cache"
        /\ tasks[i].ran_detector
        /\ compute_frame_hash(tasks[i].frame.c) = last_frame_hash
        /\ last_frame_detection_result # NoneResult
        /\ last_frame_detection_result[3] # tasks[i].frame_size

RegionValid(r) ==
    /\ 0 <= r.x
    /\ 0 <= r.y
    /\ r.x + r.w <= r.fw
    /\ r.y + r.h <= r.fh
    /\ r.w >= 1
    /\ r.h >= 1

\* C9: for every frame of width and height >= 1 and every configured region, the
\* region used for detection and the region used for display lie inside the frame
\* and are at least 1x1.
C9_RegionInsideFrame ==
    /\ detection_region # NoRegion => RegionValid(detection_region)
    /\ display_region # NoRegion => RegionValid(display_region)

\* C9 witness: both resolvers have run on a frame for an explicit region that starts
\* left of the frame and is wider and taller than it.
C9_Witness ==
    /\ detection_region # NoRegion
    /\ display_region # NoRegion
    /\ ~roi.use_full_frame
    /\ roi.roi_x # None
    /\ roi.roi_x < 0
    /\ roi.roi_w > frame.w
    /\ roi.roi_h > frame.h

\* C10: the scheduling step of a main-loop iteration starts a detection exactly when
\* now - last_cv_time >= cv_interval, a frame was read and no detection is in flight;
\* it then sets last_cv_time to now, and the start is at least cv_interval after the
\* previous start.
C10_DispatchExactlyWhenDue ==
    [][ScheduleStep =>
          /\ ThreadStarted <=> (/\ now - last_cv_time >= cv_interval
                                /\ FrameAvailable
                                /\ ~cv_processing)
          /\ ThreadStarted =>
                /\ last_cv_time' = now
                /\ cv_processing'
                /\ last_dispatch_time # None => now - last_dispatch_time >= cv_interval
      ]_vars

\* C10 witness: a detection has been started, and it is not the first one.
C10_Witness ==
    /\ \E i \in TaskIds : tasks[i].pc = "start"
    /\ last_cv_time = now
    /\ prev_cycle.valid
    /\ main_pc = "render"

\* C11: every dispatched detection returns the scheduler to Idle: once the in-flight
\* flag is set, the thread reaches its finally block, by the normal path or after an
\* exception at any of its steps, and the flag is cleared.
C11_DetectionAlwaysReturnsToIdle == cv_processing ~> ~cv_processing

\* C11 witness: a thread that raised has ended, the flag was cleared, and a later
\* tick has started the next detection.
C11_Witness ==
    /\ prev_cycle.valid
    /\ prev_cycle.raised_at # "no"
    /\ cv_processing
    /\ \E i \in TaskIds : tasks[i].pc = "start"

\* C12: a failed Detector call stays inside its cycle: the cycle reports not triggered
\* with no detections, publishes no detection list, appends false to the history, and
\* the main loop goes on.
C12_DetectorFailureContained ==
    \A i \in TaskIds :
        tasks[i].failed =>
            /\ ~tasks[i].car_detected
            /\ tasks[i].detections = NoneDetections
            /\ tasks[i].published => latest_detections = NoneDetections
            /\ tasks[i].appended =>
                   /\ Len(car_history) >= 1
                   /\ ~car_history[Len(car_history)]
            /\ main_pc # "done"

\* C12 witness: after a triggered cycle, a cycle whose Detector call failed has
\* published and appended, while the main loop holds the next frame.
C12_Witness ==
    /\ \E i \in TaskIds : tasks[i].failed /\ tasks[i].published /\ tasks[i].appended
    /\ Len(car_history) = 2
    /\ car_history[1]
    /\ main_pc = "sched"
    /\ FrameAvailable

\* The thread has passed the cache and timestamp update of lines 1362-1378.
CacheStageDone(t) == t.pc \in {"publish", "history", "finally"}

C14_AppendDespitePublicationFailure ==
    \A i \in TaskIds :
        (tasks[i].pc = "finally" /\ tasks[i].raised_at = "publish") => tasks[i].appended

\* A main-loop iteration ends without a frame: the acquisition part gives up and
\* continues (lines 1572-1576, 1603-1609), or the scheduler is reached with no frame.
NoFrameTick ==
    \/ main_pc = "top" /\ main_pc' = "top" /\ cap' # cap
    \/ ScheduleStep /\ ~FrameAvailable

\* The history changes by the append of a detection thread.
ThreadAppends == \E i \in TaskIds : tasks[i].pc = "history" /\ tasks'[i].pc = "finally"

C16_OutageRecordsNegatives ==
    [][(/\ source_kind # "none"
        /\ ~cv_processing
        /\ now - last_cv_time >= cv_interval
        /\ NoFrameTick
        /\ cap' = None)
          => /\ last_cv_time' = now
             /\ car_history' = AppendHistory(car_history, FALSE)
      ]_vars

\* C17: for a network source a failed read is retried at most 3 times: the connection
\* is given up only when the first read and 3 retries have all failed, and a retry
\* that succeeds keeps the connection and hands its frame to the same iteration.
C17_AtMostThreeRetries ==
    [][/\ retry_count' <= 3
       /\ (main_pc # "dead" /\ main_pc' = "dead" /\ source_kind = "rtsp")
             => (reads_failed = 4 /\ retry_count = 3)
       /\ (main_pc = "retry" /\ ret')
             => (cap' = cap /\ cap # None /\ frame' = FrameOf(cap))
       /\ (main_pc = "retry" /\ ret /\ main_pc' # "retry")
             => (main_pc' = "sched" /\ FrameAvailable /\ cap' = cap)
      ]_vars

\* C17 witness: the third retry has succeeded after three failed reads and its frame
\* is at the scheduler.
C17_Witness ==
    /\ source_kind = "rtsp"
    /\ main_pc = "sched"
    /\ retry_count = 3
    /\ reads_failed = 3
    /\ FrameAvailable
    /\ cap # None

\* A connect call of the main loop returns.
OpenAttempt ==
    \/ main_pc = "top" /\ main_pc' = "reopen_sleep"
    \/ main_pc = "dead_open" /\ main_pc' = "dead_sleep"

\* C18 (as claimed): after a dead connection is released, no open attempt is made
\* before the reconnect delay (5 s network, 1 s local) has passed, and successive
\* failed attempts are that delay apart.
C18_ReconnectAfterDelay ==
    [][OpenAttempt =>
          LET delay == IF source_kind = "rtsp" THEN RtspDeadDelay ELSE ReopenDelay
          IN  since_release # None =>
                  /\ since_release >= delay
                  /\ since_open # None => since_open >= delay
      ]_vars

\* C19: a connect call returns a capture only if the source opened and the probe frame
\* was read; a source that opens and gives no probe frame yields None with the capture
\* released, and after any failed call no open capture is held.
C19_OpenNeedsProbeFrame ==
    [][(OpenAttempt \/ (main_pc = "init" /\ main_pc' = "top")) =>
          /\ cap' # None <=> open_outcome' = "ok"
          /\ open_outcome' = "no_probe" => (cap' = None /\ handle' = "released")
          /\ cap' = None => handle' # "open"
          /\ cap' # None => handle' = "open"
      ]_vars

\* C19 witness: a network source has opened without giving a probe frame.
C19_Witness ==
    /\ source_kind = "rtsp"
    /\ open_outcome = "no_probe"
    /\ cap = None
    /\ handle = "released"
    /\ main_pc = "reopen_sleep"

\* C20: when the source stops failing after finitely many failures, a supervisor
\* without a connection reaches the connected state and a frame is read, passed to the
\* scheduler and forwarded to rendering.
C20_ReconnectRecovery ==
    (cap = None) ~> (cap # None /\ main_pc = "render" /\ FrameAvailable)

\* C20 witness: two connect calls failed, a later one succeeded, and a frame read from
\* the new connection is at the renderer.
C20_Witness ==
    /\ failed_opens >= 2
    /\ open_outcome = "ok"
    /\ cap # None
    /\ main_pc = "render"
    /\ FrameAvailable

\* An iteration of a local file whose first read failed and whose read after the
\* rewind gave a frame.
FileRestarted ==
    /\ source_kind = "file"
    /\ reads_failed = 1
    /\ main_pc \in {"sched", "render"}

\* C21: a local file whose read fails at the end of the file is rewound to frame 0 and
\* read again in the same iteration; when that read succeeds it returns frame 0, the
\* frame goes through the scheduler and the renderer of this iteration, and the file
\* is neither released nor reopened.
C21_FileLoopsAtEnd ==
    /\ [][/\ (main_pc = "top" /\ ~shutdown_flag /\ cap # None /\ EndOfFile
                 /\ main_pc' # main_pc)
             => (main_pc' = "file_restart" /\ ~ret' /\ cap' = cap /\ handle' = handle)
          /\ (main_pc = "file_restart" /\ ret')
             => /\ position' = 1
                /\ frame' = FrameOf(cap)
                /\ main_pc' = "sched"
                /\ cap' = cap
                /\ handle' = handle
          /\ (FileRestarted /\ main_pc' # main_pc)
             => /\ main_pc' = (IF main_pc = "sched" THEN "render" ELSE "top")
                /\ main_pc = "sched" => frame' = frame
                /\ cap' = cap
                /\ handle' = handle
         ]_vars
    /\ [](FileRestarted => (FrameAvailable /\ cap # None /\ handle = "open" /\ position = 1))

\* The file ran to its end without any failure of the source, was rewound, and frame 0
\* is at the renderer.
C21_Witness ==
    /\ FileRestarted
    /\ main_pc = "render"
    /\ faults_left = MaxFaults
    /\ FrameAvailable
    /\ position = 1
    /\ handle = "open"

\* Reads after a rewind (cap.set to frame 0, then cap.read) that have failed in this
\* iteration: every failed read of a local file but the first is one.
FailedRewindReads == IF reads_failed = 0 THEN 0 ELSE reads_failed - 1

\* C22: a local file at the end of the stream is released only when the rewind to the
\* first frame followed by a read has failed twice, never before the second such
\* failure, and it is reopened only after a delay has passed since the release.
C22_ReleaseAfterSecondRewindFailure ==
    [][/\ (source_kind = "file" /\ handle = "open" /\ handle' = "released")
             => FailedRewindReads >= 2
       /\ (source_kind = "file" /\ OpenAttempt /\ since_release # None)
             => since_release > 0
      ]_vars

\* C23: the main loop, once running, ends only on a shutdown signal: no state of the
\* source, no failed detection and no iteration without a frame (which shows a
\* placeholder, whatever the region configuration is) makes the loop exit.
C23_LoopEndsOnlyOnShutdown == main_pc = "done" => shutdown_flag

\* A statement group of the main loop (lines 1539-1746) is executed.
MainLoopStep ==
    \/ NoSourceTop
    \/ Reopen
    \/ RtspRead
    \/ Dispatch
    \/ ScheduleNoFrame
    \/ ScheduleSkip
    \/ RenderFrame
    \/ RenderPlaceholder
    \/ RenderPlaceholderRaises

\* C24: the main loop never waits for a detection: while one is in flight the loop can
\* always take its next step, and a frame that was read reaches the renderer of the
\* same iteration unchanged, whether the scheduler started a detection on it or not.
C24_LoopNeverWaitsForDetection ==
    /\ []((InFlight # {} /\ main_pc # "done" /\ ~shutdown_flag) => ENABLED MainLoopStep)
    /\ [][/\ (main_pc = "sched" /\ FrameAvailable /\ main_pc' # main_pc)
                => (main_pc' = "render" /\ frame' = frame /\ ret' = ret)
          /\ (main_pc = "render" /\ FrameAvailable /\ main_pc' # main_pc)
                => main_pc' = "top"
         ]_vars

\* A detection is in flight, its thread has not yet run a statement, and the main loop
\* is at the renderer with a frame.
C24_Witness ==
    /\ InFlight # {}
    /\ cv_processing
    /\ main_pc = "render"
    /\ FrameAvailable
    /\ last_cv_time < now
    /\ \E i \in InFlight : tasks[i].pc = "start"

\* C25: once the shutdown flag is set, the main loop starts no further iteration: at the
\* top of the loop its only step is the exit, which every branch reaches (the reconnect
\* and reopen branches through their continue); the exit releases the capture when one
\* is held, and it is taken whether or not a detection is in flight.
C25_ShutdownExitsAtLoopTop ==
    /\ [][(shutdown_flag /\ main_pc = "top")
             => /\ main_pc' \in {"top", "done"}
                /\ main_pc' = "top" => (cap' = cap /\ handle' = handle /\ frame' = frame)
         ]_vars
    /\ [](main_pc = "done" => (shutdown_flag /\ cap = None /\ handle # "open"))
    /\ shutdown_flag ~> (main_pc = "done")

\* The program has ended on a signal, the capture it held is released, and a
\* detection was still in flight.
C25_Witness ==
    /\ main_pc = "done"
    /\ shutdown_flag
    /\ handle = "released"
    /\ InFlight # {}
    /\ cv_processing

\* The (detections, frame_size) pair of the detection cycle that passed lines 1379-1383
\* last: the cycle in flight when it is past them, else the cycle that completed last.
LastPublishedPair ==
    LET past == {i \in InFlight : tasks[i].published}
    IN  IF past # {}
        THEN LET i == CHOOSE k \in past : TRUE
             IN  << tasks[i].detections, tasks[i].frame_size >>
        ELSE IF prev_cycle.valid
        THEN << prev_cycle.detections, prev_cycle.frame_size >>
        ELSE << NoneDetections, NoneSize >>

\* C26: the published result is replaced as a whole.  The render path reads both
\* fields in one step under display_lock (lines 1713-1716), so it reads the slot of
\* some state; in every state, under every interleaving with the detection thread,
\* the slot holds the detections and the region size of one and the same cycle.
C26_SlotHoldsOneCyclesPair ==
    << latest_detections, latest_detection_frame_size >> = LastPublishedPair

\* The render path is about to read the slot just after a cycle has replaced the
\* pair of the cycle before it, and the two cycles differ in both fields.
C26_Witness ==
    /\ main_pc = "render"
    /\ prev_cycle.valid
    /\ \E i \in InFlight :
          /\ tasks[i].published
          /\ tasks[i].detections # prev_cycle.detections
          /\ tasks[i].frame_size # prev_cycle.frame_size
          /\ latest_detections = tasks[i].detections
          /\ latest_detection_frame_size = tasks[i].frame_size

\* The configuration is a point with a quadrant and the point lies strictly inside
\* the frame that was read.
PointInsideFrame ==
    /\ frame # NoFrame
    /\ ~roi.use_full_frame
    /\ roi.roi_x = None
    /\ roi.roi_point_x # None
    /\ roi.roi_point_y # None
    /\ 0 < roi.roi_point_x
    /\ roi.roi_point_x < frame.w
    /\ 0 < roi.roi_point_y
    /\ roi.roi_point_y < frame.h

\* The rectangle between the point and the corner named by the quadrant: 1 top-right,
\* 2 top-left, 3 bottom-left, 4 bottom-right.
CornerRectangle(px, py, q, fw, fh) ==
    CASE q = 1 -> << px, 0, fw - px, py >>
      [] q = 2 -> << 0, 0, px, py >>
      [] q = 3 -> << 0, py, px, fh - py >>
      [] q = 4 -> << px, py, fw - px, fh - py >>

RegionTuple(r) == << r.x, r.y, r.w, r.h >>

\* C27: for a point strictly inside the frame and a quadrant 1..4, the resolver returns
\* the rectangle between the point and the corner of the quadrant, and the region the
\* detection and the display cut out after their clamping is that same rectangle.
C27_PointQuadrantRectangle ==
    (PointInsideFrame /\ roi.roi_quadrant \in 1..4) =>
        LET expected == CornerRectangle(roi.roi_point_x, roi.roi_point_y, roi.roi_quadrant,
                                        frame.w, frame.h)
        IN  /\ calculate_roi_from_point_quadrant(roi.roi_point_x, roi.roi_point_y,
                                                 roi.roi_quadrant, frame.w, frame.h) = expected
            /\ detection_region # NoRegion => RegionTuple(detection_region) = expected
            /\ display_region # NoRegion => RegionTuple(display_region) = expected

\* Both resolvers have run for quadrant 1 and a point strictly inside the largest frame.
C27_Witness ==
    /\ PointInsideFrame
    /\ roi.roi_quadrant = 1
    /\ frame.w = MaxRoiFrame
    /\ frame.h = MaxRoiFrame
    /\ roi.roi_point_x # roi.roi_point_y
    /\ detection_region # NoRegion
    /\ display_region # NoRegion

\* The configuration gives the region by explicit coordinates and a frame was read.
ExplicitRegion ==
    /\ frame # NoFrame
    /\ ~roi.use_full_frame
    /\ roi.roi_x # None

\* The configured size fits the frame.
SizeFits ==
    /\ 1 <= roi.roi_w
    /\ roi.roi_w <= frame.w
    /\ 1 <= roi.roi_h
    /\ roi.roi_h <= frame.h

\* The region is what clamping the size first and the position second gives; a size
\* that fits the frame is kept, and a region that hangs over the right or the bottom
\* edge is moved back to the edge.
SizeClampedFirst(r) ==
    LET w1 == Max(1, Min(roi.roi_w, frame.w))
        h1 == Max(1, Min(roi.roi_h, frame.h))
        x1 == Max(0, Min(roi.roi_x, frame.w - w1))
        y1 == Max(0, Min(roi.roi_y, frame.h - h1))
    IN  /\ RegionTuple(r) = << x1, y1, w1, h1 >>
        /\ SizeFits => (r.w = roi.roi_w /\ r.h = roi.roi_h)
        /\ (SizeFits /\ roi.roi_x + roi.roi_w > frame.w) => r.x = frame.w - roi.roi_w
        /\ (SizeFits /\ roi.roi_y + roi.roi_h > frame.h) => r.y = frame.h - roi.roi_h

\* C28: with explicit coordinates the detection and the display clamp the size to the
\* frame first (at least 1) and the position second, so that the region fits: a
\* configured size that fits the frame is kept, and a region that hangs over the
\* frame is shifted inward, not shrunk.
C28_SizeClampedBeforePosition ==
    ExplicitRegion =>
        /\ detection_region # NoRegion => SizeClampedFirst(detection_region)
        /\ display_region # NoRegion => SizeClampedFirst(display_region)

\* Both resolvers have run for a region whose size fits the frame and which hangs
\* over the right edge: it was shifted, with its width kept.
C28_Witness ==
    /\ ExplicitRegion
    /\ SizeFits
    /\ roi.roi_w >= 2
    /\ roi.roi_x >= 1
    /\ roi.roi_x < frame.w
    /\ roi.roi_x + roi.roi_w > frame.w
    /\ detection_region # NoRegion
    /\ display_region # NoRegion
    /\ detection_region.w = roi.roi_w
    /\ detection_region.x < roi.roi_x

\* The configuration is a point with a quadrant code and a frame was read.
PointQuadrantRegion ==
    /\ frame # NoFrame
    /\ ~roi.use_full_frame
    /\ roi.roi_x = None
    /\ roi.roi_point_x # None
    /\ roi.roi_point_y # None
    /\ roi.roi_quadrant # None

\* C29: for every quadrant code outside 1..4 the resolver logs the warning and returns
\* exactly what it returns for quadrant 4 with the same point and frame, and so do the
\* regions the detection and the display cut out.
C29_UnknownQuadrantIsFour ==
    (PointQuadrantRegion /\ roi.roi_quadrant \notin 1..4) =>
        LET as_four == [roi EXCEPT !.roi_quadrant = 4]
        IN  /\ invalid_quadrant_warning(roi.roi_quadrant)
            /\ calculate_roi_from_point_quadrant(roi.roi_point_x, roi.roi_point_y,
                                                 roi.roi_quadrant, frame.w, frame.h)
                 = calculate_roi_from_point_quadrant(roi.roi_point_x, roi.roi_point_y, 4,
                                                     frame.w, frame.h)
            /\ detection_region # NoRegion
                 => RegionTuple(detection_region) = DetectionRegion(as_four, frame.w, frame.h)
            /\ display_region # NoRegion
                 => RegionTuple(display_region) = DisplayRegion(as_four, frame.w, frame.h)

\* Both resolvers have run for quadrant code 5 and a point strictly inside the frame,
\* and the region is the bottom-right rectangle, which no other quadrant gives.
C29_Witness ==
    /\ PointInsideFrame
    /\ roi.roi_quadrant = 5
    /\ detection_region # NoRegion
    /\ display_region # NoRegion
    /\ RegionTuple(detection_region)
         = CornerRectangle(roi.roi_point_x, roi.roi_point_y, 4, frame.w, frame.h)
    /\ \A q \in 1..3 :
          RegionTuple(detection_region)
             # CornerRectangle(roi.roi_point_x, roi.roi_point_y, q, frame.w, frame.h)

\* The program runs the save-frame mode.
CaptureMode == main_pc \in {"capture", "capture_detect", "capture_next"}

\* C30: with a smoothing window of 0 the effective result is the raw result, for every
\* raw result and every last-positive timestamp up to now: in the monitoring loop
\* configured with 0 cycles, and in the save-frame mode, which passes the window 0, no
\* cache and no timestamp, and changes neither the history, the cache nor the timestamp.
C30_WindowZeroDisablesSmoothing ==
    /\ \A raw \in BOOLEAN, last_time \in {None} \cup 0..now :
          Smooth(raw, last_time, now, 0) = raw
    /\ temporal_smoothing_window = 0 =>
          \A i \in InFlight :
             (tasks[i].pc # "start" /\ tasks[i].ran_detector)
                => tasks[i].car_detected = tasks[i].raw
    /\ (CaptureMode /\ prev_cycle.valid) =>
          /\ prev_cycle.ran_detector
          /\ prev_cycle.failed => ~prev_cycle.car_detected
          /\ ~prev_cycle.failed
                => prev_cycle.car_detected = RawTriggered(prev_cycle.detections)
    /\ CaptureMode =>
          /\ car_history = << >>
          /\ history_appends = 0
          /\ last_frame_hash = None
          /\ last_frame_detection_result = NoneResult
          /\ last_car_detection_time = None

\* The monitoring loop with a window of 0: a detection that found no car, one interval
\* after a car was detected, reports no car.
C30_Witness ==
    /\ temporal_smoothing_window = 0
    /\ last_car_detection_time # None
    /\ now - last_car_detection_time <= cv_interval
    /\ \E i \in InFlight :
          /\ tasks[i].pc = "cache"
          /\ tasks[i].ran_detector
          /\ ~tasks[i].failed
          /\ ~tasks[i].raw
          /\ ~tasks[i].car_detected

\* The cache holds the fingerprint and the result of cycle t.
CacheIsOf(t) ==
    /\ last_frame_hash = t.frame_hash
    /\ last_frame_detection_result = ResultOf(t)

\* C31: the cache holds one entry, that of the most recent cycle that produced a
\* fingerprint: once such a cycle has passed lines 1362-1378 the cached fingerprint
\* and result are its own, and a cycle whose region has another fingerprint than the
\* cached one (the third cycle of a sequence A, B, A) is not served from the cache
\* and runs the detector.
C31_CacheHoldsMostRecentEntry ==
    /\ (last_frame_hash = None) <=> (last_frame_detection_result = NoneResult)
    /\ \A i \in InFlight :
          /\ (CacheStageDone(tasks[i]) /\ tasks[i].frame_hash # None) => CacheIsOf(tasks[i])
          /\ (tasks[i].pc = "cache" /\ tasks[i].cache_hit)
                => tasks[i].frame_hash = last_frame_hash
          /\ (tasks[i].pc = "cache" /\ ~tasks[i].failed
                 /\ tasks[i].frame_hash # last_frame_hash)
                => tasks[i].ran_detector
    /\ (InFlight = {} /\ prev_cycle.valid /\ prev_cycle.frame_hash # None)
          => CacheIsOf(prev_cycle)

\* At least two cycles have completed, the last one ran the detector on a region with
\* fingerprint B, and the cycle in flight, on a region with another fingerprint, was
\* not served from the cache.
C31_Witness ==
    /\ history_appends >= 2
    /\ prev_cycle.valid
    /\ prev_cycle.frame_hash # None
    /\ prev_cycle.ran_detector
    /\ CacheIsOf(prev_cycle)
    /\ \E i \in InFlight :
          /\ tasks[i].pc = "cache"
          /\ tasks[i].frame_hash # None
          /\ tasks[i].frame_hash # prev_cycle.frame_hash
          /\ tasks[i].frame_size = prev_cycle.frame_size
          /\ tasks[i].ran_detector
          /\ ~tasks[i].cache_hit

\* C32: the thresholds the pipeline runs with satisfy
\* car_absent_threshold < car_present_threshold <= history_size, for the defaults and
\* for every value the configuration file may give.
C32_ThresholdsOrdered ==
    detection_config # NotLoaded =>
        /\ detection_config.car_absent_threshold < detection_config.car_present_threshold
        /\ detection_config.car_present_threshold <= detection_config.history_size

\* C33: the triggered value of the cache entry is the detector's own verdict on the
\* stored detection list, so a cycle served from the cache reports a trigger only if
\* the detector reported a trigger-class detection for a region with that fingerprint.
C33_CacheStoresRawVerdict ==
    /\ last_frame_detection_result # NoneResult
          => last_frame_detection_result[1] = RawTriggered(last_frame_detection_result[2])
    /\ \A i \in InFlight :
          (tasks[i].cache_hit /\ tasks[i].car_detected) => RawTriggered(tasks[i].detections)

\* C34: for every non-empty configured stream address, get_rtsp_url returns a URL
\* whose transport parameter is tcp, whatever query parameters the address carries.
C34_TransportIsTcp ==
    (main_pc = "init" /\ UrlConfigured)
        => (rtsp_url # NoUrl /\ TransportOf(rtsp_url) = "tcp")

\* The interval check of line 1619 passes in the current state.
IntervalCheckPasses == now - last_cv_time >= cv_interval /\ ~cv_processing

\* C35: a tick whose interval check passes causes exactly one history append: with no
\* frame the main loop appends false itself and starts no thread; with a frame it
\* appends nothing and starts one thread, which has appended one entry when it
\* reaches its end.  A tick whose check fails appends nothing and starts no thread,
\* and the history grows by one entry at a time and in no other step.
C35_OneAppendPerPassedCheck ==
    /\ [](\A i \in TaskIds :
             /\ tasks[i].pc = "finally" => tasks[i].appended
             /\ tasks[i].appended => tasks[i].pc = "finally")
    /\ [][/\ (ScheduleStep /\ IntervalCheckPasses /\ ~FrameAvailable)
                => /\ car_history' = AppendHistory(car_history, FALSE)
                   /\ history_appends' = history_appends + 1
                   /\ ~ThreadStarted
          /\ (ScheduleStep /\ IntervalCheckPasses /\ FrameAvailable)
                => /\ UNCHANGED history_vars
                   /\ ThreadStarted
          /\ (ScheduleStep /\ ~IntervalCheckPasses)
                => /\ UNCHANGED history_vars
                   /\ ~ThreadStarted
          /\ ThreadStarted => (ScheduleStep /\ IntervalCheckPasses)
          /\ history_vars' # history_vars
                => /\ history_appends' = history_appends + 1
                   /\ \/ ScheduleStep /\ IntervalCheckPasses /\ ~FrameAvailable
                      \/ ThreadAppends
          /\ \A i \in TaskIds :
                (tasks[i].pc = "history" /\ tasks'[i].pc # "history")
                   => /\ history_appends' = history_appends + 1
                      /\ car_history' = AppendHistory(car_history, tasks[i].car_detected)
         ]_vars

\* The thread dispatched on a second passed check has appended its entry, a trigger,
\* after the entry of the first one.
C35_Witness ==
    /\ history_appends = 2
    /\ \E i \in TaskIds :
          /\ tasks[i].pc = "finally"
          /\ tasks[i].appended
          /\ tasks[i].car_detected
          /\ car_history[Len(car_history)]
    /\ last_dispatch_time = last_cv_time

\* Thread i takes a step of a cycle whose detection step failed.
FailedCycleStep(i) == tasks'[i] # tasks[i] /\ tasks[i].pc # "idle" /\ tasks'[i].failed

\* C36: in a cycle whose detection step failed (null fingerprint), no step of the
\* thread changes the cached fingerprint, the cached result or the last-positive
\* timestamp; the thread publishes the null list, appends false to the history and
\* clears the in-flight flag, and changes nothing else of the pipeline.
C36_FailedCycleKeepsCache ==
    /\ [](\A i \in TaskIds :
             tasks[i].failed
                => /\ tasks[i].frame_hash = None
                   /\ ~tasks[i].car_detected
                   /\ tasks[i].detections = NoneDetections)
    /\ [][\A i \in TaskIds :
             FailedCycleStep(i)
                => /\ UNCHANGED << cache_vars, last_cv_time, main_pc, frame, ret, cap >>
                   /\ slot_vars' # slot_vars => tasks[i].pc = "publish"
                   /\ tasks[i].pc = "publish"
                         => /\ latest_detections' = NoneDetections
                            /\ latest_detection_frame_size' = tasks[i].frame_size
                   /\ history_vars' # history_vars => tasks[i].pc = "history"
                   /\ tasks[i].pc = "history"
                         => car_history' = AppendHistory(car_history, FALSE)
                   /\ cv_processing' # cv_processing => (tasks[i].pc = "finally" /\ ~cv_processing')
         ]_vars

\* A failed cycle has published and appended while the cache still holds the entry and
\* the timestamp of the triggered cycle before it.
C36_Witness ==
    /\ \E i \in TaskIds :
          /\ tasks[i].pc = "finally"
          /\ tasks[i].failed
          /\ tasks[i].appended
          /\ latest_detections = NoneDetections
          /\ ~car_history[Len(car_history)]
    /\ prev_cycle.valid
    /\ prev_cycle.car_detected
    /\ prev_cycle.frame_hash # None
    /\ CacheIsOf(prev_cycle)
    /\ last_car_detection_time # None

\* The main loop takes its rendering step.
RenderStep == main_pc = "render" /\ main_pc' = "top"

\* C37: boxes are drawn on a rendered image only if the slot holds a detection list
\* (not None) whose regionSize is the size of that image, and then they are the boxes
\* of that list; a result published for another region size, and a None result, are
\* not drawn.
C37_OverlayOnlyOnMatchingSize ==
    [][RenderStep =>
          /\ display_image'.size # NoneSize
          /\ display_image'.boxes # NoneDetections
                => /\ latest_detections # NoneDetections
                   /\ latest_detection_frame_size = display_image'.size
                   /\ display_image'.boxes = latest_detections
          /\ (latest_detections = NoneDetections
                 \/ latest_detection_frame_size # display_image'.size)
                => display_image'.boxes = NoneDetections
      ]_vars

\* An image was rendered with the boxes of a published list of its own size.
C37_Witness ==
    /\ display_image.boxes # NoneDetections
    /\ display_image.boxes = latest_detections
    /\ display_image.size = latest_detection_frame_size
    /\ RawTriggered(display_image.boxes)
    /\ main_pc = "top"

\* C38: for one frame and one region configuration the display path and the detection
\* path resolve the same (x, y, w, h), so the size of the displayed image is the
\* regionSize a detection on that frame returns.
C38_DisplayAndDetectionAgree ==
    /\ (detection_region # NoRegion /\ display_region # NoRegion)
          => /\ RegionTuple(detection_region) = RegionTuple(display_region)
             /\ detection_region.fw = display_region.fw
             /\ detection_region.fh = display_region.fh
    /\ frame # NoFrame
          => /\ DisplayRegion(roi, frame.w, frame.h) = DetectionRegion(roi, frame.w, frame.h)
             /\ prepare_display_image(frame, roi).size
                   = RegionSize(DetectionRegion(roi, frame.w, frame.h))

\* Both paths have run on one frame for an explicit region that the frame does not
\* hold: each moved and shrank it to the same region.
C38_Witness ==
    /\ ExplicitRegion
    /\ detection_region # NoRegion
    /\ display_region # NoRegion
    /\ RegionTuple(display_region) # << roi.roi_x, roi.roi_y, roi.roi_w, roi.roi_h >>
    /\ display_region.w < roi.roi_w
    /\ display_region.x < roi.roi_x
    /\ RegionTuple(detection_region) = RegionTuple(display_region)

\* C39: for every point, quadrant code and frame of width and height >= 1, the region
\* calculate_roi_from_point_quadrant returns is left as it is by the clamp of the
\* detection path and by that of the display path, so neither logs the bounds-adjusted
\* warning in point+quadrant mode; and for every explicit region, clamping the clamped
\* region again, in either path, changes nothing.
C39_ClampIdempotent ==
    /\ PointQuadrantRegion
          => LET r == calculate_roi_from_point_quadrant(roi.roi_point_x, roi.roi_point_y,
                                                        roi.roi_quadrant, frame.w, frame.h)
             IN  /\ ClampRoi(r, frame.w, frame.h) = r
                 /\ ~bounds_adjusted(r, DetectionRegion(roi, frame.w, frame.h))
                 /\ ~bounds_adjusted(r, DisplayRegion(roi, frame.w, frame.h))
                 /\ detection_region # NoRegion => RegionTuple(detection_region) = r
                 /\ display_region # NoRegion => RegionTuple(display_region) = r
    /\ ExplicitRegion
          => LET once == ClampRoi(<< roi.roi_x, roi.roi_y, roi.roi_w, roi.roi_h >>,
                                  frame.w, frame.h)
                 again == CoordinatesConfig(once[1], once[2], once[3], once[4])
             IN  /\ ClampRoi(once, frame.w, frame.h) = once
                 /\ DetectionRegion(again, frame.w, frame.h) = once
                 /\ DisplayRegion(again, frame.w, frame.h) = once
                 /\ detection_region # NoRegion
                       => ClampRoi(RegionTuple(detection_region), frame.w, frame.h)
                             = RegionTuple(detection_region)

\* Both paths have run for a point outside the frame with a quadrant code: the resolver
\* moved the point to the edge, and the clamps left its region as it was.
C39_Witness ==
    /\ PointQuadrantRegion
    /\ roi.roi_point_x >= frame.w
    /\ roi.roi_point_y < 0
    /\ roi.roi_quadrant = 4
    /\ detection_region # NoRegion
    /\ display_region # NoRegion
    /\ detection_region.x = frame.w - 1
    /\ detection_region.w = 1
    /\ RegionTuple(display_region) = RegionTuple(detection_region)

====
